---- MODULE Spec2Model ----
(***************************************************************************)
(* Verification model of conversational-bi: the SQL validator, the data    *)
(* agent's query handler, agent discovery, and the orchestrator's          *)
(* dispatch / aggregation path.                                            *)
(*                                                                         *)
(* Strings are sequences of one-character strings, so that the validator's *)
(* whitespace normalisation and regular expressions are computed character *)
(* by character.                                                           *)
(***************************************************************************)
EXTENDS Integers, Sequences, FiniteSets, TLC

(***************************************************************************)
(* Character classes (Python str.split / re: \s, \w, \b, re.IGNORECASE)    *)
(***************************************************************************)
LowerLetters == <<"a","b","c","d","e","f","g","h","i","j","k","l","m",
                  "n","o","p","q","r","s","t","u","v","w","x","y","z">>

UpperLetters == <<"A","B","C","D","E","F","G","H","I","J","K","L","M",
                  "N","O","P","Q","R","S","T","U","V","W","X","Y","Z">>

Digits == {"0","1","2","3","4","5","6","7","8","9"}

Range(f) == {f[i] : i \in DOMAIN f}

IsSpace(c) == c \in {" ", "\t", "\n", "\r"}

WordChars == Range(LowerLetters) \cup Range(UpperLetters) \cup Digits \cup {"_"}

IsWord(c) == c \in WordChars

UpperOf == [c \in Range(LowerLetters) |-> UpperLetters[CHOOSE i \in DOMAIN LowerLetters : LowerLetters[i] = c]]

Upper(c) == IF c \in DOMAIN UpperOf THEN UpperOf[c] ELSE c

LowerOf == [c \in Range(UpperLetters) |-> LowerLetters[CHOOSE i \in DOMAIN UpperLetters : UpperLetters[i] = c]]

Lower(c) == IF c \in DOMAIN LowerOf THEN LowerOf[c] ELSE c

UpperStr(s) == [i \in 1..Len(s) |-> Upper(s[i])]

LowerStr(s) == [i \in 1..Len(s) |-> Lower(s[i])]

StartsWith(s, p) == Len(p) <= Len(s) /\ SubSeq(s, 1, Len(p)) = p

\* first index >= i whose character does not satisfy the class, or Len(s)+1
RECURSIVE SkipSpace(_, _)
SkipSpace(s, i) ==
    IF i <= Len(s) /\ IsSpace(s[i]) THEN SkipSpace(s, i + 1) ELSE i

RECURSIVE SkipNonSpace(_, _)
SkipNonSpace(s, i) ==
    IF i <= Len(s) /\ ~IsSpace(s[i]) THEN SkipNonSpace(s, i + 1) ELSE i

RECURSIVE SkipWord(_, _)
SkipWord(s, i) ==
    IF i <= Len(s) /\ IsWord(s[i]) THEN SkipWord(s, i + 1) ELSE i

\* str.split(): the maximal runs of non-whitespace characters, in order
RECURSIVE SplitFrom(_, _)
SplitFrom(s, i) ==
    LET b == SkipSpace(s, i)
        e == SkipNonSpace(s, b)
    IN  IF b > Len(s) THEN <<>>
        ELSE <<SubSeq(s, b, e - 1)>> \o SplitFrom(s, e)

Split(s) == SplitFrom(s, 1)

\* " ".join(parts)
RECURSIVE JoinSpace(_)
JoinSpace(parts) ==
    IF parts = <<>> THEN <<>>
    ELSE IF Len(parts) = 1 THEN parts[1]
    ELSE parts[1] \o <<" ">> \o JoinSpace(Tail(parts))

\* str.strip()
RECURSIVE RStrip(_)
RStrip(s) ==
    IF s # <<>> /\ IsSpace(s[Len(s)]) THEN RStrip(SubSeq(s, 1, Len(s) - 1)) ELSE s

Strip(s) == LET b == SkipSpace(s, 1) IN RStrip(SubSeq(s, b, Len(s)))

\* normalized = " ".join(sql.split())
Normalize(sql) == JoinSpace(Split(sql))

(***************************************************************************)
(* Regular-expression primitives                                           *)
(***************************************************************************)
WordAt(s, i) == i >= 1 /\ i <= Len(s) /\ IsWord(s[i])

\* \b between positions i-1 and i
Boundary(s, i) == WordAt(s, i - 1) # WordAt(s, i)

\* variant: the literal compared without re.IGNORECASE
LitAtCaseSensitive(s, i, lit) ==
    /\ i >= 1
    /\ i + Len(lit) - 1 <= Len(s)
    /\ \A k \in 1..Len(lit) : s[i + k - 1] = lit[k]

\* literal lit matches at position i, ignoring case
LitAt(s, i, lit) ==
    /\ i >= 1
    /\ i + Len(lit) - 1 <= Len(s)
    /\ \A k \in 1..Len(lit) : Upper(s[i + k - 1]) = Upper(lit[k])

\* re.search(r"\bKW\b", s, re.IGNORECASE)
SearchKeyword(s, kw) ==
    \E i \in 1..(Len(s) - Len(kw) + 1) : LitAt(s, i, kw) /\ Boundary(s, i) /\ Boundary(s, i + Len(kw))

\* re.search(r"\bxp_", s, re.IGNORECASE) and the like
SearchPrefix(s, pre) ==
    \E i \in 1..(Len(s) - Len(pre) + 1) : LitAt(s, i, pre) /\ Boundary(s, i)

\* variant: re.match instead of re.search (anchored at the start)
SearchLiteralAnchored(s, lit) == LitAt(s, 1, lit)

\* re.search(r"--", s) and the like
SearchLiteral(s, lit) == \E i \in 1..(Len(s) - Len(lit) + 1) : LitAt(s, i, lit)

\* re.search(r";\s*\w", s)
SearchStacked(s) ==
    \E i \in 1..Len(s) : s[i] = ";" /\ WordAt(s, SkipSpace(s, i + 1))

(***************************************************************************)
(* SQLValidator (common/sql_validator.py)                                  *)
(***************************************************************************)
KwPattern(word, message) == [kind |-> "keyword", lit |-> word, message |-> message]

\* SQLValidator._dangerous_patterns, in the order of the list
DangerousPatterns == <<
    KwPattern(<<"D","R","O","P">>, "DROP statements not allowed"),
    KwPattern(<<"D","E","L","E","T","E">>, "DELETE statements not allowed"),
    KwPattern(<<"T","R","U","N","C","A","T","E">>, "TRUNCATE statements not allowed"),
    KwPattern(<<"I","N","S","E","R","T">>, "INSERT statements not allowed"),
    KwPattern(<<"U","P","D","A","T","E">>, "UPDATE statements not allowed"),
    KwPattern(<<"A","L","T","E","R">>, "ALTER statements not allowed"),
    KwPattern(<<"C","R","E","A","T","E">>, "CREATE statements not allowed"),
    KwPattern(<<"G","R","A","N","T">>, "GRANT statements not allowed"),
    KwPattern(<<"R","E","V","O","K","E">>, "REVOKE statements not allowed"),
    [kind |-> "stacked", lit |-> <<";">>, message |-> "multiple statements not allowed"],
    [kind |-> "literal", lit |-> <<"-","-">>, message |-> "SQL comment injection not allowed"],
    [kind |-> "literal", lit |-> <<"/","*">>, message |-> "SQL block comment not allowed"],
    KwPattern(<<"E","X","E","C">>, "EXEC not allowed"),
    KwPattern(<<"E","X","E","C","U","T","E">>, "EXECUTE not allowed"),
    [kind |-> "prefix", lit |-> <<"x","p","_">>, message |-> "Extended stored procedures not allowed"],
    [kind |-> "prefix", lit |-> <<"s","p","_">>, message |-> "System stored procedures not allowed"] >>

\* re.search(pattern, sql, re.IGNORECASE)
PatternSearch(p, s) ==
    CASE p.kind = "keyword" -> SearchKeyword(s, p.lit)
      [] p.kind = "prefix"  -> SearchPrefix(s, p.lit)
      [] p.kind = "literal" -> SearchLiteral(s, p.lit)
      [] p.kind = "stacked" -> SearchStacked(s)

\* variant: the scan keeps going and the last matching pattern is reported
LastDangerous(s) ==
    LET hits == {i \in DOMAIN DangerousPatterns : PatternSearch(DangerousPatterns[i], s)}
    IN  IF hits = {} THEN 0 ELSE CHOOSE i \in hits : \A j \in hits : i >= j

\* index of the first pattern of the list that matches, 0 if none does
FirstDangerous(s) ==
    LET hits == {i \in DOMAIN DangerousPatterns : PatternSearch(DangerousPatterns[i], s)}
    IN  IF hits = {} THEN 0 ELSE CHOOSE i \in hits : \A j \in hits : i <= j

\* re.findall(r"\bKW\s+(\w+)", s, re.IGNORECASE): the captured groups of the
\* non-overlapping matches, scanning from position i
RECURSIVE FindAllFrom(_, _, _)
FindAllFrom(s, kw, i) ==
    IF i > Len(s) THEN {}
    ELSE LET sp == i + Len(kw)
             b  == SkipSpace(s, sp)
             e  == SkipWord(s, b)
         IN  IF Boundary(s, i) /\ LitAt(s, i, kw) /\ b > sp /\ e > b
             THEN {SubSeq(s, b, e - 1)} \cup FindAllFrom(s, kw, e)
             ELSE FindAllFrom(s, kw, i + 1)

\* the set `tables` built by _validate_tables
ReferencedTables(s) ==
    FindAllFrom(s, <<"F","R","O","M">>, 1) \cup FindAllFrom(s, <<"J","O","I","N">>, 1)

\* variant: the whitelist compared without lower-casing
RejectedTablesCaseSensitive(s, allowed) ==
    {t \in ReferencedTables(s) : t \notin allowed}

\* the tables on which _validate_tables raises (it raises on the first one in
\* the iteration order of a Python set, which is not fixed)
RejectedTables(s, allowed) ==
    {t \in ReferencedTables(s) : LowerStr(t) \notin {LowerStr(a) : a \in allowed}}

Passed == [raised |-> FALSE, message |-> "", table |-> <<>>]

Raised(message) == [raised |-> TRUE, message |-> message, table |-> <<>>]

TableNotAllowed(t) == [raised |-> TRUE, message |-> "Table '%s' not allowed", table |-> t]

\* SQLValidator._validate_tables: the possible outcomes
ValidateTables(sql, allowed) ==
    IF RejectedTables(sql, allowed) = {} THEN {Passed}
    ELSE {TableNotAllowed(t) : t \in RejectedTables(sql, allowed)}

\* variant: the SELECT test on the query as given, without normalization
IsSelectRaw(sql) == StartsWith(UpperStr(sql), <<"S","E","L","E","C","T">>)

\* normalized.upper().strip().startswith("SELECT")
IsSelect(sql) == StartsWith(Strip(UpperStr(Normalize(sql))), <<"S","E","L","E","C","T">>)

\* variant: the dangerous patterns scanned before the SELECT check
ValidatePatternsFirst(sql, wl) ==
    IF FirstDangerous(sql) # 0 THEN {Raised(DangerousPatterns[FirstDangerous(sql)].message)}
    ELSE IF ~IsSelect(sql) THEN {Raised("Only SELECT queries are allowed")}
    ELSE IF wl.configured THEN ValidateTables(sql, wl.tables)
    ELSE {Passed}

\* SQLValidator.validate: the possible outcomes for a query under a whitelist
\* wl = [configured, tables]; allowed_tables = None is configured = FALSE.
\* _validate_columns does nothing.
Validate(sql, wl) ==
    IF ~IsSelect(sql) THEN {Raised("Only SELECT queries are allowed")}
    ELSE IF FirstDangerous(sql) # 0 THEN {Raised(DangerousPatterns[FirstDangerous(sql)].message)}
    ELSE IF wl.configured THEN ValidateTables(sql, wl.tables)
    ELSE {Passed}

(***************************************************************************)
(* Inputs of the validator: a prefix followed by at most MaxChunks pieces  *)
(***************************************************************************)
MaxChunks == 2

SqlPrefixes == {
    <<>>,
    <<"S","E","L","E","C","T"," ">>,
    <<"\t","s","e","l","e","c","t"," ","*"," ","f","r","o","m"," ","C","u","s","t","o","m","e","r","s">>,
    <<"S","E","L","E","C","T"," ","*"," ","F","R","O","M"," ">>,
    <<"W","I","T","H"," ">> }

SqlChunks == {
    <<" ">>, <<"\n">>, <<";">>, <<"-">>, <<"/">>, <<"*">>, <<"x">>, <<"_">>,
    <<"D","R","O","P">>,
    <<"E","x","e","c">>,
    <<"U","T","E">>,
    <<" ","F","R","O","M"," ">>,
    <<" ","j","o","i","n","\n">>,
    <<"c","u","s","t","o","m","e","r","s">>,
    <<"O","r","d","e","r","s">> }

RECURSIVE SqlBodies(_)
SqlBodies(n) ==
    IF n = 0 THEN {<<>>}
    ELSE SqlBodies(n - 1) \cup {b \o c : b \in SqlBodies(n - 1), c \in SqlChunks}

\* every keyword of the pattern list, in upper, lower and mixed case, and the
\* procedure prefixes, each between two of these neighbours
ProbeWords == {
    <<"D","R","O","P">>, <<"d","r","o","p">>,
    <<"D","E","L","E","T","E">>, <<"D","e","L","e","T","e">>,
    <<"T","R","U","N","C","A","T","E">>, <<"t","r","u","n","c","a","t","e">>,
    <<"I","N","S","E","R","T">>, <<"I","n","s","e","r","t">>,
    <<"U","P","D","A","T","E">>, <<"u","p","d","a","t","e">>,
    <<"A","L","T","E","R">>, <<"a","l","t","e","R">>,
    <<"C","R","E","A","T","E">>, <<"c","r","e","a","t","e">>,
    <<"G","R","A","N","T">>, <<"g","r","a","n","t">>,
    <<"R","E","V","O","K","E">>, <<"R","e","v","o","k","e">>,
    <<"E","X","E","C">>, <<"e","x","e","c">>,
    <<"E","X","E","C","U","T","E">>, <<"e","x","e","c","u","t","e">>,
    <<"x","p","_","c","m","d">>, <<"S","P","_","h","e","l","p">>,
    <<"'","a","-","-","b","'">>, <<"'","/","*","'">> }

ProbeNeighbours == {<<>>, <<" ">>, <<"_">>, <<"x">>, <<";">>}

ProbePrefixes == {<<>>, <<"S","E","L","E","C","T"," ">>}

SqlProbes ==
    {p \o a \o w \o b : p \in ProbePrefixes, a \in ProbeNeighbours, w \in ProbeWords,
                        b \in ProbeNeighbours}

SqlInputs == {p \o b : p \in SqlPrefixes, b \in SqlBodies(MaxChunks)} \cup SqlProbes

NoWhitelist == [configured |-> FALSE, tables |-> {}]

Whitelist(tables) == [configured |-> TRUE, tables |-> tables]

T_customers == <<"c","u","s","t","o","m","e","r","s">>

T_orders == <<"o","r","d","e","r","s">>

Whitelists == {NoWhitelist, Whitelist({T_customers}), Whitelist({T_customers, T_orders})}

\* one fragment per rule of validate: the sixteen patterns in the order of
\* the list, a table outside the whitelists and a table inside them
RuleSamples == {
    <<"D","R","O","P">>, <<"d","e","l","e","t","e">>, <<"T","r","u","n","c","a","t","e">>,
    <<"I","N","S","E","R","T">>, <<"u","p","d","a","t","e">>, <<"A","L","T","E","R">>,
    <<"c","r","e","a","t","e">>, <<"G","R","A","N","T">>, <<"r","e","v","o","k","e">>,
    <<";","1">>, <<"-","-">>, <<"/","*">>,
    <<"E","X","E","C">>, <<"e","x","e","c","u","t","e">>,
    <<"x","p","_","c","m","d">>, <<"s","p","_","h","e","l","p">>,
    <<"F","R","O","M"," ","s","e","c","r","e","t","s">>,
    <<"F","R","O","M"," ","c","u","s","t","o","m","e","r","s">> }

\* queries that break two rules at once, in both textual orders, with and
\* without the SELECT prefix
RulePairs ==
    {p \o a \o <<" ">> \o b : p \in ProbePrefixes, a \in RuleSamples, b \in RuleSamples}

\* queries that differ in their whitespace only: a head, two words and the
\* gaps around them, among them a second table after a comma
FormLeads == {<<>>, <<"\n","\t">>}

FormHeads == {
    <<"S","E","L","E","C","T">>,
    <<"s","e","l","e","c","t"," ","*"," ","f","r","o","m"," ","c","u","s","t","o","m","e","r","s">> }

FormGaps == {<<>>, <<" ">>, <<" "," ">>, <<"\t","\n">>}

FormWords == {
    <<",">>, <<";">>, <<"F","R","O","M">>, <<"j","o","i","n">>,
    <<"s","e","c","r","e","t","s">>, <<"c","u","s","t","o","m","e","r","s">> }

QueryForms ==
    {l \o h \o g1 \o a \o g2 \o b \o t :
        l \in FormLeads, h \in FormHeads, g1 \in FormGaps, a \in FormWords,
        g2 \in FormGaps, b \in FormWords, t \in {<<>>, <<" ">>}}

(***************************************************************************)
(* BaseDataAgent (agents/data_agents/base_data_agent.py)                   *)
(***************************************************************************)
NumHandlers == 2

PoolSize == 1

Handlers == 1..NumHandlers

\* QueryResult.data / QueryResult.error: None or a value
NoneData == [none |-> TRUE, rows |-> <<>>]

Data(rows) == [none |-> FALSE, rows |-> rows]

NoneError == [none |-> TRUE, message |-> "", table |-> <<>>]

Err(message, table) == [none |-> FALSE, message |-> message, table |-> table]

QueryResult(success, text, data, error) ==
    [success |-> success, text |-> text, data |-> data, error |-> error]

NoResult == QueryResult(FALSE, "<pending>", NoneData, NoneError)

\* the SQL the model layer may return to a data agent
AgentSqls == {
    <<"S","E","L","E","C","T"," ","*"," ","F","R","O","M"," ","c","u","s","t","o","m","e","r","s">>,
    <<"s","e","l","e","c","t"," ","n"," ","f","r","o","m"," ","C","u","s","t","o","m","e","r","s",
      " ","j","o","i","n"," ","o","r","d","e","r","s">>,
    <<"S","E","L","E","C","T"," ","1",";"," ","D","R","O","P"," ","t">>,
    <<"D","E","L","E","T","E"," ","F","R","O","M"," ","c","u","s","t","o","m","e","r","s">>,
    <<"S","E","L","E","C","T"," ","1"," ","-","-">> }

\* rows the datastore may return
Row1 == [id |-> 1, x |-> "a"]

Row2 == [id |-> 2, x |-> "b"]

DbRowSets == {<<>>, <<Row1>>, <<Row1, Row2>>}

\* BaseDataAgent._format_response
FormatResponse(data) ==
    IF data = <<>> THEN "No results found."
    ELSE IF Len(data) = 1 /\ Cardinality(DOMAIN data[1]) <= 3 THEN "Result: <values>"
    ELSE "Found <n> results. <explanation>"

\* the validator of a data agent: allowed_tables defaults to [table_name]
AgentWhitelist == Whitelist({T_customers})

\* variant: the validator's exception is swallowed and execution goes on
AfterValidateSwallowed(out) == "acquire"

\* process_query after validate returned or raised: where the handler goes
AfterValidate(out) == IF out.raised THEN "done" ELSE "acquire"

\* variant: the failure is returned without its error text
FailedQueryWithoutError(message, table) == QueryResult(FALSE, "", NoneData, NoneError)

\* the except branch of process_query: QueryResult(success=False, text="", error=str(e))
FailedQuery(message, table) == QueryResult(FALSE, "", NoneData, Err(message, table))

(***************************************************************************)
(* AgentDiscoveryService (agents/orchestrator/discovery.py)                *)
(***************************************************************************)
NumUrls == 2

MaxPasses == 2

\* self.agent_urls
AgentUrls == [i \in 1..NumUrls |-> i]

\* a skill entry of a card that has no "id" key
NoId == "<no id>"

\* DiscoveredAgent(name, base_url, skills); skills are given by their ids
DiscoveredAgent(name, base_url, skills) ==
    [name |-> name, base_url |-> base_url, skills |-> skills]

\* the agent cards a URL may serve: name and skills as read by card_data.get
\* ("Unknown" when the card has no name)
Cards == {
    [name |-> "customers", skills |-> <<"customer_query", "customer_stats">>],
    [name |-> "orders",    skills |-> <<"order_query">>],
    [name |-> "products",  skills |-> <<"product_query", "order_query">>],
    [name |-> "orders",    skills |-> <<NoId>>],
    [name |-> "Unknown",   skills |-> <<>>] }

\* the ways _discover_agent raises: connection error, timeout, raise_for_status,
\* response.json() on a body that is no JSON, card_data.get on JSON that is no object
FetchFailures == {"network error", "timeout", "non-2xx status", "malformed body", "not an object"}

\* self._agents[agent.name] = agent: a dict keeps the position of a key it has
RegistryPut(reg, agent) ==
    IF \E k \in DOMAIN reg : reg[k].name = agent.name
    THEN [k \in DOMAIN reg |-> IF reg[k].name = agent.name THEN agent ELSE reg[k]]
    ELSE Append(reg, agent)

\* variant: nothing but a complete pass counts
DiscoverOutcomeAllOrNothing(discovered) ==
    IF Len(discovered) < NumUrls THEN "raised" ELSE "returned"

\* if not discovered: raise AgentDiscoveryError("No agents discovered")
DiscoverOutcome(discovered) ==
    IF discovered = <<>> THEN "raised" ELSE "returned"

(***************************************************************************)
(* A2A server encoding (agents/base/a2a_server.py) and the orchestrator's  *)
(* client decoding (agents/orchestrator/agent.py)                          *)
(***************************************************************************)
TextPart(text) == [type |-> "text", text |-> text, rows |-> <<>>]

DataPart(rows) == [type |-> "data", text |-> "", rows |-> rows]

\* A2AServer._success_response: the parts of the artifact built from a QueryResult
SuccessParts(qr) ==
    (IF qr.text # "" THEN <<TextPart(qr.text)>> ELSE <<>>)
    \o (IF ~qr.data.none /\ qr.data.rows # <<>> THEN <<DataPart(qr.data.rows)>> ELSE <<>>)
    \o (IF ~qr.error.none /\ qr.error.message # ""
        THEN <<TextPart("Error: " \o qr.error.message)>> ELSE <<>>)

\* AgentResult(agent_name, success, text, data, error)
AgentResult(agent_name, success, text, data, error) ==
    [agent_name |-> agent_name, success |-> success, text |-> text, data |-> data,
     error |-> error]

\* _query_agent: the loop over artifacts and parts; every text part assigns
\* text, every data part assigns data
RECURSIVE DecodeParts(_, _, _)
DecodeParts(parts, text, data) ==
    IF parts = <<>> THEN [text |-> text, data |-> data]
    ELSE IF Head(parts).type = "text" THEN DecodeParts(Tail(parts), Head(parts).text, data)
    ELSE IF Head(parts).type = "data" THEN DecodeParts(Tail(parts), text, Data(Head(parts).rows))
    ELSE DecodeParts(Tail(parts), text, data)

\* _query_agent on a response without "error" key
DecodeSuccess(agent_name, parts) ==
    LET d == DecodeParts(parts, "", NoneData)
    IN  AgentResult(agent_name, TRUE, d.text, d.data, NoneError)

\* _query_agent on a response with "error" key
DecodeError(agent_name, message) ==
    AgentResult(agent_name, FALSE, "", NoneData, Err(message, <<>>))

(***************************************************************************)
(* A2AServer._handle_task_send (agents/base/a2a_server.py)                 *)
(***************************************************************************)
\* the value of dict.get on a missing key, and the JSON null
Null == "<null>"

\* part.get("text"): None when the key is missing
NoText == [none |-> TRUE, value |-> ""]

SomeText(t) == [none |-> FALSE, value |-> t]

\* one element of message.parts: a JSON object with its type, kind and text
\* keys, or a JSON value that is not an object
RequestPart(type, kind, text) == [object |-> TRUE, type |-> type, kind |-> kind, text |-> text]

NonObjectPart == [object |-> FALSE, type |-> "", kind |-> "", text |-> NoText]

RequestParts == {
    RequestPart("text", "", SomeText("top customers")),
    RequestPart("text", "", SomeText("")),
    RequestPart("text", "", NoText),
    RequestPart("", "text", SomeText("orders today")),
    RequestPart("data", "", NoText),
    NonObjectPart }

MaxParts == 2

RECURSIVE PartLists(_)
PartLists(n) ==
    IF n = 0 THEN {<<>>}
    ELSE PartLists(n - 1) \cup {Append(l, part) : l \in PartLists(n - 1), part \in RequestParts}

\* what request.json() gives: a JSON object, or an exception (JSONDecodeError
\* for malformed JSON text, another exception for bytes that cannot be decoded)
ObjectBody(jsonrpc, id, method, params, parts) ==
    [kind |-> "object", jsonrpc |-> jsonrpc, id |-> id, method |-> method,
     params |-> params, parts |-> parts]

UnreadableBody(kind) ==
    [kind |-> kind, jsonrpc |-> "", id |-> Null, method |-> "", params |-> "absent",
     parts |-> <<>>]

\* request.json() gives a JSON value that is not an object (a list, a string,
\* a number, null): it has no get
NonObjectBody ==
    [kind |-> "value", jsonrpc |-> "", id |-> Null, method |-> "", params |-> "absent",
     parts |-> <<>>]

\* params is an object holding message.parts, is absent, or is null
RequestBodies ==
    {ObjectBody(v, id, method, "object", parts) :
        v \in {"2.0", "1.0"}, id \in {"test-1", Null}, method \in {"tasks/send", "other"},
        parts \in PartLists(MaxParts)}
    \cup {ObjectBody(v, id, method, params, <<>>) :
        v \in {"2.0", "1.0"}, id \in {"test-1", Null}, method \in {"tasks/send", "other"},
        params \in {"absent", "null"}}
    \cup {UnreadableBody("malformed"), UnreadableBody("undecodable"), NonObjectBody}

NoBody == UnreadableBody("none")

\* _error_response(request_id, code, message)
ErrorResponse(request_id, code, message) ==
    [kind |-> "error", id |-> request_id, code |-> code, message |-> message, parts |-> <<>>]

\* _success_response(request_id, result) for a QueryResult
SuccessResponse(request_id, result) ==
    [kind |-> "result", id |-> request_id, code |-> 0, message |-> "",
     parts |-> SuccessParts(result)]

\* an exception leaves _handle_task_send: no envelope is returned
Unhandled(exc) ==
    [kind |-> "unhandled", id |-> Null, code |-> 0, message |-> exc.message, parts |-> <<>>]

NoResponse == [kind |-> "none", id |-> Null, code |-> 0, message |-> "", parts |-> <<>>]

\* part.get("type") == "text" or part.get("kind") == "text"
IsTextPart(part) == part.type = "text" \/ part.kind = "text"

\* the loop over parts: query_text of the first text part (break), None when
\* there is none; part.get raises AttributeError on a part that is not an object
RECURSIVE FirstText(_)
FirstText(parts) ==
    IF parts = <<>> THEN [raised |-> FALSE, text |-> NoText]
    ELSE IF ~Head(parts).object THEN [raised |-> TRUE, text |-> NoText]
    ELSE IF IsTextPart(Head(parts)) THEN [raised |-> FALSE, text |-> Head(parts).text]
    ELSE FirstText(Tail(parts))

\* truth value of query_text
TextTruthy(text) == ~text.none /\ text.value # ""

Respond(response) == [call |-> FALSE, response |-> response, text |-> ""]

CallHandler(text) == [call |-> TRUE, response |-> NoResponse, text |-> text]

JSONDecodeError == [class |-> "JSONDecodeError", message |-> "Expecting value: line 1 column 1 (char 0)"]

UnicodeDecodeError == [class |-> "UnicodeDecodeError", message |-> "'utf-8' codec can't decode byte 0xff"]

AttributeError == [class |-> "AttributeError", message |-> "object has no attribute 'get'"]

NoException == [class |-> "", message |-> ""]

\* the except clauses of _handle_task_send; in the second one body.get("id")
\* is evaluated whenever body is bound, and raises when body is not an object
OnException(body, exc) ==
    IF exc.class = "JSONDecodeError"
    THEN ErrorResponse(Null, -32700, "Parse error")
    ELSE IF body.kind = "value" THEN Unhandled(AttributeError)
    ELSE ErrorResponse(IF body.kind = "object" THEN body.id ELSE Null, -32603, exc.message)

\* the exceptions query_handler may raise
HandlerExceptions ==
    {[class |-> "RuntimeError", message |-> "handler failed"],
     [class |-> "LLMError", message |-> "Failed to analyze query: timeout"],
     JSONDecodeError}

\* variant: the method is checked before the protocol version
PrecheckMethodFirst(body) ==
    IF body.kind = "malformed" THEN Respond(OnException(body, JSONDecodeError))
    ELSE IF body.kind = "undecodable" THEN Respond(OnException(body, UnicodeDecodeError))
    ELSE IF body.kind = "value" THEN Respond(OnException(body, AttributeError))
    ELSE IF body.method # "tasks/send"
    THEN Respond(ErrorResponse(body.id, -32601, "Method not found"))
    ELSE IF body.jsonrpc # "2.0"
    THEN Respond(ErrorResponse(body.id, -32600, "Invalid Request"))
    ELSE IF body.params = "null" THEN Respond(OnException(body, AttributeError))
    ELSE LET found == FirstText(IF body.params = "absent" THEN <<>> ELSE body.parts)
         IN  IF found.raised THEN Respond(OnException(body, AttributeError))
             ELSE IF ~TextTruthy(found.text)
             THEN Respond(ErrorResponse(body.id, -32602, "Invalid params: no text found"))
             ELSE CallHandler(found.text.value)

\* _handle_task_send from request.json() up to the await of query_handler
Precheck(body) ==
    IF body.kind = "malformed" THEN Respond(OnException(body, JSONDecodeError))
    ELSE IF body.kind = "undecodable" THEN Respond(OnException(body, UnicodeDecodeError))
    ELSE IF body.kind = "value" THEN Respond(OnException(body, AttributeError))
    ELSE IF body.jsonrpc # "2.0"
    THEN Respond(ErrorResponse(body.id, -32600, "Invalid Request"))
    ELSE IF body.method # "tasks/send"
    THEN Respond(ErrorResponse(body.id, -32601, "Method not found"))
    ELSE IF body.params = "null" THEN Respond(OnException(body, AttributeError))
    ELSE LET found == FirstText(IF body.params = "absent" THEN <<>> ELSE body.parts)
         IN  IF found.raised THEN Respond(OnException(body, AttributeError))
             ELSE IF ~TextTruthy(found.text)
             THEN Respond(ErrorResponse(body.id, -32602, "Invalid params: no text found"))
             ELSE CallHandler(found.text.value)

(***************************************************************************)
(* ResultAggregator (agents/orchestrator/aggregator.py)                    *)
(***************************************************************************)
\* AggregatedResult(success, response_text, combined_data, source_agents)
AggregatedResult(success, response_text, combined_data, source_agents) ==
    [success |-> success, response_text |-> response_text,
     combined_data |-> combined_data, source_agents |-> source_agents]

\* join_strategy: None or a column name
NoJoin == [none |-> TRUE, key |-> ""]

JoinOn(key) == [none |-> FALSE, key |-> key]

\* truth value of r.data
HasRows(r) == ~r.data.none /\ r.data.rows # <<>>

\* variant: source_agents lists only the agents that succeeded
NamesOfSuccessful(results) ==
    LET ok == SelectSeq(results, LAMBDA r : r.success)
    IN  [i \in DOMAIN ok |-> ok[i].agent_name]

Names(results) == [i \in DOMAIN results |-> results[i].agent_name]

IsSuccess(r) == r.success

IsFailure(r) == ~r.success

\* variant: one failed source fails the whole aggregation
AnyFailed(results) == SelectSeq(results, IsFailure) # <<>>

\* len(failed) == len(results)
AllFailed(results) == Len(SelectSeq(results, IsFailure)) = Len(results)

\* r.update(row) on a copy: the fields of row overwrite those of r
MergeRow(r, row) ==
    [f \in DOMAIN r \cup DOMAIN row |-> IF f \in DOMAIN row THEN row[f] ELSE r[f]]

\* result = {row[join_key]: row.copy() for row in datasets[0] if join_key in row},
\* kept as the sequence of the dict's values in dict order
RECURSIVE SeedRows(_, _, _)
SeedRows(rows, key, acc) ==
    IF rows = <<>> THEN acc
    ELSE LET row == Head(rows)
         IN  IF key \notin DOMAIN row THEN SeedRows(Tail(rows), key, acc)
             ELSE IF \E k \in DOMAIN acc : acc[k][key] = row[key]
             THEN SeedRows(Tail(rows), key,
                     [k \in DOMAIN acc |-> IF acc[k][key] = row[key] THEN row ELSE acc[k]])
             ELSE SeedRows(Tail(rows), key, Append(acc, row))

\* truth value of key_value = row.get(join_key)
KeyTruthy(row, key) == key \in DOMAIN row /\ row[key] # 0

\* for row in dataset: if key_value and key_value in result: result[key_value].update(row)
RECURSIVE MergeDataset(_, _, _)
MergeDataset(acc, rows, key) ==
    IF rows = <<>> THEN acc
    ELSE LET row == Head(rows)
         IN  IF KeyTruthy(row, key) /\ \E k \in DOMAIN acc : acc[k][key] = row[key]
             THEN MergeDataset(
                     [k \in DOMAIN acc |->
                         IF acc[k][key] = row[key] THEN MergeRow(acc[k], row) ELSE acc[k]],
                     Tail(rows), key)
             ELSE MergeDataset(acc, Tail(rows), key)

RECURSIVE MergeDatasets(_, _, _)
MergeDatasets(acc, datasets, key) ==
    IF datasets = <<>> THEN acc
    ELSE MergeDatasets(MergeDataset(acc, Head(datasets), key), Tail(datasets), key)

\* ResultAggregator._join_data
JoinData(datasets, key) ==
    IF Len(datasets) < 2 THEN (IF datasets = <<>> THEN <<>> ELSE datasets[1])
    ELSE MergeDatasets(SeedRows(datasets[1], key, <<>>), Tail(datasets), key)

\* variant: a row already in the list is not added again
RECURSIVE ConcatDataDeduplicated(_)
ConcatDataDeduplicated(results) ==
    IF results = <<>> THEN <<>>
    ELSE LET last == results[Len(results)]
             init == ConcatDataDeduplicated(SubSeq(results, 1, Len(results) - 1))
             rows == IF HasRows(last) THEN last.data.rows ELSE <<>>
         IN  init \o SelectSeq(rows, LAMBDA r : \A k \in DOMAIN init : init[k] # r)

\* combined_data.extend(r.data) for every successful r with rows
RECURSIVE ConcatData(_)
ConcatData(results) ==
    IF results = <<>> THEN <<>>
    ELSE (IF HasRows(Head(results)) THEN Head(results).data.rows ELSE <<>>)
         \o ConcatData(Tail(results))

RowsOf(results) == [i \in DOMAIN results |-> results[i].data.rows]

\* the combined_data of the branch for several successful results
CombinedData(successful, join) ==
    IF ~join.none /\ join.key # ""
    THEN JoinData(RowsOf(SelectSeq(successful, HasRows)), join.key)
    ELSE ConcatData(successful)

\* variant: the summary entries carry no row counts
SynthesisInputWithoutCounts(successful) ==
    [i \in DOMAIN successful |->
        [agent |-> successful[i].agent_name, text |-> successful[i].text, row_count |-> 0]]

\* the agent_results handed to synthesize_response
SynthesisInput(successful) ==
    [i \in DOMAIN successful |->
        [agent |-> successful[i].agent_name, text |-> successful[i].text,
         row_count |-> IF HasRows(successful[i]) THEN Len(successful[i].data.rows) ELSE 0]]

\* variant: a single successful result goes through the combining branch too
AggregateSingleCombined(results, join) ==
    LET successful == SelectSeq(results, LAMBDA r : r.success)
    IN  IF Len(successful) = 0
        THEN [synth |-> FALSE,
              out |-> AggregatedResult(FALSE, "All data sources failed to respond.",
                                       NoneData, Names(results))]
        ELSE [synth |-> TRUE,
              out |-> AggregatedResult(TRUE, "<awaiting synthesis>",
                                       Data(CombinedData(successful, join)),
                                       Names(successful))]

\* ResultAggregator.aggregate up to its return or to the synthesize_response
\* call: synth tells whether the model layer is called; the response_text of
\* that branch is filled in when the call returns
Aggregate(results, join) ==
    LET successful == SelectSeq(results, IsSuccess)
    IN  IF AllFailed(results)
        THEN [synth |-> FALSE,
              out |-> AggregatedResult(FALSE, "All data sources failed to respond.",
                                       NoneData, Names(results))]
        ELSE IF Len(successful) = 1
        THEN [synth |-> FALSE,
              out |-> AggregatedResult(TRUE, successful[1].text, successful[1].data,
                                       <<successful[1].agent_name>>)]
        ELSE [synth |-> TRUE,
              out |-> AggregatedResult(TRUE, "<awaiting synthesis>",
                                       Data(CombinedData(successful, join)),
                                       Names(successful))]

\* Arguments of aggregate: at most MaxResults results, the i-th from the i-th
\* agent; a result succeeded (without data, without rows, or with rows) or
\* failed (without data, or still carrying rows)
MaxResults == 3

AggAgentNames == <<"customers", "orders", "products", "agent-4", "agent-5">>

AggRowSets == {
    <<[n |-> 1], [n |-> 1]>>,
    <<[id |-> 1, x |-> "a"], [id |-> 2, x |-> "b"]>>,
    <<>> }

AggResultsOf(name) ==
    {AgentResult(name, TRUE, "text of " \o name, Data(rows), NoneError) : rows \in AggRowSets}
    \cup {AgentResult(name, TRUE, "text of " \o name, NoneData, NoneError),
          AgentResult(name, FALSE, "", NoneData, Err("Request failed", <<>>)),
          AgentResult(name, FALSE, "", Data(<<[n |-> 1], [n |-> 9]>>), Err("Request failed", <<>>))}

RECURSIVE AggResultLists(_)
AggResultLists(n) ==
    IF n = 0 THEN {<<>>}
    ELSE AggResultLists(n - 1)
         \cup {Append(l, r) : l \in {m \in AggResultLists(n - 1) : Len(m) = n - 1},
                              r \in AggResultsOf(AggAgentNames[n])}

AggJoins == {NoJoin, JoinOn("id"), JoinOn("")}

(***************************************************************************)
(* OrchestratorAgent (agents/orchestrator/agent.py)                        *)
(***************************************************************************)
MaxMappings == 2

UserQuery == "how many orders per customer"

\* what discover_all may leave in the registry of the orchestrator
OrchRegistries == {
    << DiscoveredAgent("customers", 1, <<"customer_query", "customer_stats">>),
       DiscoveredAgent("orders", 2, <<"order_query">>),
       DiscoveredAgent("products", 3, <<"product_query", "order_query">>) >>,
    << DiscoveredAgent("orders", 2, <<"order_query">>),
       DiscoveredAgent("customers", 1, <<"customer_query", "customer_stats">>) >>,
    << DiscoveredAgent("orders", 2, <<NoId>>) >> }

\* the skill ids the model layer may name, and the sub-query of the k-th mapping
MappedSkills == {"customer_query", "order_query", "product_query", "unknown_skill"}

SubQuery(k) == IF k = 1 THEN "sub-query 1" ELSE IF k = 2 THEN "sub-query 2" ELSE "sub-query n"

RECURSIVE SkillLists(_)
SkillLists(n) ==
    IF n = 0 THEN {<<>>}
    ELSE SkillLists(n - 1) \cup {Append(l, sk) : l \in SkillLists(n - 1), sk \in MappedSkills}

\* QueryAnalysisResult: skill_mappings, requires_cross_join, join_strategy
Analyses ==
    {[skill_mappings |-> [k \in DOMAIN l |-> [skill_id |-> l[k], sub_query |-> SubQuery(k)]],
      requires_cross_join |-> x, join_strategy |-> j] :
        l \in SkillLists(MaxMappings), x \in BOOLEAN, j \in {NoJoin, JoinOn("id")}}

NoAnalysis == [skill_mappings |-> <<>>, requires_cross_join |-> FALSE, join_strategy |-> NoJoin]

HasSkill(agent, skill_id) == \E k \in DOMAIN agent.skills : agent.skills[k] = skill_id

\* any skill of the registry without "id": skill["id"] raises KeyError
RegistryBroken(reg) == \E a \in DOMAIN reg : HasSkill(reg[a], NoId)

\* AgentDiscoveryService.get_agent_for_skill: index of the first agent of the
\* registry having the skill, 0 for None
AgentForSkill(reg, skill_id) ==
    LET hits == {a \in DOMAIN reg : HasSkill(reg[a], skill_id)}
    IN  IF hits = {} THEN 0 ELSE CHOOSE a \in hits : \A b \in hits : a <= b

InSeq(x, seq) == \E k \in DOMAIN seq : seq[k] = x

\* variant: the loop without the "agent not in agents" test
RECURSIVE MapSkillsRepeating(_, _, _)
MapSkillsRepeating(reg, mappings, acc) ==
    IF mappings = <<>> THEN acc
    ELSE LET a == AgentForSkill(reg, Head(mappings).skill_id)
         IN  IF a # 0
             THEN MapSkillsRepeating(reg, Tail(mappings),
                     [agents |-> Append(acc.agents, reg[a]),
                      sub_queries |-> Append(acc.sub_queries, Head(mappings).sub_query)])
             ELSE MapSkillsRepeating(reg, Tail(mappings), acc)

\* the loop of _create_plan over analysis.skill_mappings
RECURSIVE MapSkills(_, _, _)
MapSkills(reg, mappings, acc) ==
    IF mappings = <<>> THEN acc
    ELSE LET a == AgentForSkill(reg, Head(mappings).skill_id)
         IN  IF a # 0 /\ ~InSeq(reg[a], acc.agents)
             THEN MapSkills(reg, Tail(mappings),
                     [agents |-> Append(acc.agents, reg[a]),
                      sub_queries |-> Append(acc.sub_queries, Head(mappings).sub_query)])
             ELSE MapSkills(reg, Tail(mappings), acc)

\* variant: no fallback to all agents when nothing was mapped
CreatePlanWithoutFallback(reg, analysis, user_query) ==
    LET mapped == MapSkills(reg, analysis.skill_mappings, [agents |-> <<>>, sub_queries |-> <<>>])
        join   == IF analysis.requires_cross_join THEN analysis.join_strategy ELSE NoJoin
    IN  [agents |-> mapped.agents, sub_queries |-> mapped.sub_queries,
         join_strategy |-> join, original_query |-> user_query]

\* OrchestratorAgent._create_plan after analyze_query returned
CreatePlan(reg, analysis, user_query) ==
    LET mapped == MapSkills(reg, analysis.skill_mappings, [agents |-> <<>>, sub_queries |-> <<>>])
        join   == IF analysis.requires_cross_join THEN analysis.join_strategy ELSE NoJoin
    IN  IF mapped.agents = <<>>
        THEN [agents |-> reg, sub_queries |-> [k \in DOMAIN reg |-> user_query],
              join_strategy |-> join, original_query |-> user_query]
        ELSE [agents |-> mapped.agents, sub_queries |-> mapped.sub_queries,
              join_strategy |-> join, original_query |-> user_query]

NoPlan == [agents |-> <<>>, sub_queries |-> <<>>, join_strategy |-> NoJoin, original_query |-> ""]

\* the rows a data agent's handler may return, by agent
AgentRowSets(name) ==
    IF name = "customers"
    THEN {<<[id |-> 1, x |-> "a"], [id |-> 2, x |-> "b"]>>,
          <<[id |-> 0, x |-> "a"]>>,
          <<[n |-> 1]>>,
          <<>>}
    ELSE IF name = "orders"
    THEN {<<[id |-> 1, y |-> "p"], [id |-> 3, y |-> "q"]>>,
          <<[id |-> 0, y |-> "p"], [id |-> 1, x |-> "c"]>>,
          <<[n |-> 2], [n |-> 3]>>,
          <<>>}
    ELSE {<<[id |-> 1, z |-> "k"]>>,
          <<[n |-> 5], [id |-> 2, z |-> "m"]>>,
          <<>>}

\* the QueryResults the handler of a data agent may return: a success, a
\* failure, or partial output together with an error
HandlerResults(name) ==
    {QueryResult(TRUE, FormatResponse(rows), Data(rows), NoneError) : rows \in AgentRowSets(name)}
    \cup {FailedQuery("Only SELECT queries are allowed", <<>>),
          QueryResult(TRUE, "Partial result", Data(<<[n |-> 7]>>), Err("Row limit reached", <<>>))}

\* one entry of the list returned by asyncio.gather(*tasks, return_exceptions=True):
\* not yet resolved, an AgentResult, or an exception
NoAgentResult == AgentResult("", FALSE, "<none>", NoneData, NoneError)

Pending == [state |-> "pending", kind |-> "", result |-> NoAgentResult, exc |-> ""]

Returned(kind, result) == [state |-> "result", kind |-> kind, result |-> result, exc |-> ""]

Raising(kind, exc) == [state |-> "exception", kind |-> kind, result |-> NoAgentResult, exc |-> exc]

\* except httpx.HTTPError as e: raise AgentCommunicationError(f"Failed to contact {agent.name}: {e}")
CommunicationError(agent_name, e) == "Failed to contact " \o agent_name \o ": " \o e

\* the exceptions a dispatch may raise: httpx.HTTPError subclasses (a status
\* error, a timeout) are wrapped, any other exception leaves _query_agent as it is
DispatchExceptions(agent_name) ==
    { Raising("http error", CommunicationError(agent_name, "500 Internal Server Error")),
      Raising("timeout", CommunicationError(agent_name, "timed out")),
      Raising("other exception", "Expecting value: line 1 column 1 (char 0)") }

\* variant: the entry is passed on as it is
ProcessedResultUnconverted(entry, agent) == entry.result

\* _execute_plan: "Convert exceptions to error results"
ProcessedResult(entry, agent) ==
    IF entry.state = "exception"
    THEN AgentResult(agent.name, FALSE, "", NoneData, Err(entry.exc, <<>>))
    ELSE entry.result

\* variant: the results in the order the responses arrived
GatheredByArrival(task, arrival) == [i \in DOMAIN task |-> task[arrival[i]]]

\* asyncio.gather returns the results in the order of the awaitables
Gathered(task, arrival) == [i \in DOMAIN task |-> task[i]]

(***************************************************************************)
(* query_a2a_agent (fe_agent/tools/a2a_client.py)                          *)
(***************************************************************************)
ClientAgent == "Orders Agent"

MaxReplyParts == 3

\* the parts an artifact of a response may hold
ReplyParts == {
    TextPart("Found 2 rows"),
    TextPart("Error: Query failed"),
    DataPart(<<[n |-> 1]>>),
    DataPart(<<>>),
    [type |-> "file", text |-> "", rows |-> <<>>] }

RECURSIVE ReplyPartLists(_)
ReplyPartLists(n) ==
    IF n = 0 THEN {<<>>}
    ELSE ReplyPartLists(n - 1)
         \cup {Append(l, part) : l \in ReplyPartLists(n - 1), part \in ReplyParts}

\* what `await client.post(...)` and `response.json()` produce: an exception,
\* or a JSON value: null, an object with an "error" key (an object with or
\* without message, or not an object), or an object without one
RaisedReply(kind, text) ==
    [kind |-> kind, text |-> text, json |-> "", error |-> "", message |-> "", parts |-> <<>>]

JsonReply(json, error, message, parts) ==
    [kind |-> "json", text |-> "", json |-> json, error |-> error, message |-> message,
     parts |-> parts]

ClientReplies ==
    {RaisedReply("timeout", "ReadTimeout"),
     RaisedReply("exception", "All connection attempts failed"),
     RaisedReply("exception", "Expecting value: line 1 column 1 (char 0)"),
     RaisedReply("exception", "Request to Orders Agent timed out"),
     JsonReply("null", "", "", <<>>),
     JsonReply("object", "object", "Invalid params: no text found", <<>>),
     JsonReply("object", "object", "timed out", <<>>),
     JsonReply("object", "object without message", "", <<>>),
     JsonReply("object", "not an object", "", <<>>)}
    \cup {JsonReply("object", "", "", parts) : parts \in ReplyPartLists(MaxReplyParts)}

NoReply == RaisedReply("none", "")

\* the dict returned by query_a2a_agent
ClientDict(success, text, data, error) ==
    [success |-> success, text |-> text, data |-> data, error |-> error]

ClientError(message) == [none |-> FALSE, message |-> message]

ClientNoError == [none |-> TRUE, message |-> ""]

NoReturn == ClientDict(FALSE, "<none>", NoneData, ClientNoError)

\* text_parts, in order
RECURSIVE ClientTexts(_)
ClientTexts(parts) ==
    IF parts = <<>> THEN <<>>
    ELSE (IF Head(parts).type = "text" THEN <<Head(parts).text>> ELSE <<>>)
         \o ClientTexts(Tail(parts))

\* data_parts.extend(rows) for every data part
RECURSIVE ClientRows(_)
ClientRows(parts) ==
    IF parts = <<>> THEN <<>>
    ELSE (IF Head(parts).type = "data" THEN Head(parts).rows ELSE <<>>)
         \o ClientRows(Tail(parts))

\* "\n".join(text_parts)
RECURSIVE JoinLines(_)
JoinLines(texts) ==
    IF texts = <<>> THEN ""
    ELSE IF Len(texts) = 1 THEN texts[1]
    ELSE texts[1] \o "\n" \o JoinLines(Tail(texts))

\* except Exception as e: "Failed to query {agent.name}: {e}"
ClientFailed(agent_name, text) ==
    ClientDict(FALSE, "", NoneData, ClientError("Failed to query " \o agent_name \o ": " \o text))

\* variant: a timeout is reported by the general except clause
ClientReturnTimeoutAsFailure(reply, agent_name) ==
    IF reply.kind \in {"timeout", "exception"} THEN ClientFailed(agent_name, reply.text)
    ELSE IF reply.json = "null"
    THEN ClientFailed(agent_name, "argument of type 'NoneType' is not iterable")
    ELSE IF reply.error = "not an object"
    THEN ClientFailed(agent_name, "'NoneType' object has no attribute 'get'")
    ELSE IF reply.error # ""
    THEN ClientDict(FALSE, "", NoneData,
            ClientError("Agent error: " \o (IF reply.error = "object" THEN reply.message
                                            ELSE "Unknown error")))
    ELSE ClientDict(TRUE, JoinLines(ClientTexts(reply.parts)),
                    IF ClientRows(reply.parts) # <<>> THEN Data(ClientRows(reply.parts))
                    ELSE NoneData,
                    ClientNoError)

\* query_a2a_agent after the POST resolved
ClientReturn(reply, agent_name) ==
    IF reply.kind = "timeout"
    THEN ClientDict(FALSE, "", NoneData,
            ClientError("Request to " \o agent_name \o " timed out"))
    ELSE IF reply.kind = "exception" THEN ClientFailed(agent_name, reply.text)
    ELSE IF reply.json = "null"
    THEN ClientFailed(agent_name, "argument of type 'NoneType' is not iterable")
    ELSE IF reply.error = "not an object"
    THEN ClientFailed(agent_name, "'NoneType' object has no attribute 'get'")
    ELSE IF reply.error # ""
    THEN ClientDict(FALSE, "", NoneData,
            ClientError("Agent error: " \o (IF reply.error = "object" THEN reply.message
                                            ELSE "Unknown error")))
    ELSE ClientDict(TRUE, JoinLines(ClientTexts(reply.parts)),
                    IF ClientRows(reply.parts) # <<>> THEN Data(ClientRows(reply.parts))
                    ELSE NoneData,
                    ClientNoError)

(***************************************************************************)
(* Concurrent process_query calls on one OrchestratorAgent                 *)
(***************************************************************************)
NumQueries == 3

Queries == 1..NumQueries

\* a call that is past `await self.initialize()` and has not returned
MidQuery(pc) == pc \in {"planning", "dispatching", "aggregating"}

(***************************************************************************)
(* State                                                                   *)
(***************************************************************************)
VARIABLES
    v_sql,      \* validator: the query handed to validate
    v_wl,       \* validator: allowed_tables of the SQLValidator
    v_pc,       \* validator: "call" before validate, "done" after
    v_out,      \* validator: the outcome of validate
    da_pc,      \* data agent: where each process_query call is
    da_sql,     \* data agent: sql_result.sql of each call
    da_vout,    \* data agent: what validate did in each call (history)
    da_ok,      \* data agent: the SQL strings validate returned on, per call (history)
    da_holds,   \* data agent: whether the call holds a pool connection
    da_acq,     \* data agent: how often the call acquired a connection (history)
    da_fetched, \* data agent: the SQL strings passed to conn.fetch, per call (history)
    da_rows,    \* data agent: outcome of the fetch, pending until the connection is released
    da_result,  \* data agent: the QueryResult returned by each call
    pool_free,  \* datastore: free connections of the pool
    disc_pc,    \* discovery: "idle", "fetching", "returned" or "raised"
    disc_i,     \* discovery: index of the URL fetched next
    disc_found, \* discovery: the list `discovered` of the running pass
    disc_agents,\* discovery: self._agents, in dict order
    disc_parsed,\* discovery: URLs of this pass that returned a parsable card (history)
    disc_log,   \* discovery: the last agent_discovery_failed warning of the pass
    disc_pass,  \* discovery: passes started so far
    o_pc,       \* orchestrator: where process_query is
    o_init,     \* orchestrator: self._initialized
    o_plan,     \* orchestrator: the QueryPlan
    o_task,     \* orchestrator: the dispatches of _execute_plan, by plan position
    o_arrival,  \* orchestrator: plan positions in the order their dispatch resolved (history)
    o_results,  \* orchestrator: the list handed to the aggregator
    o_synth,    \* orchestrator: calls of synthesize_response (history)
    o_out,      \* orchestrator: the AggregatedResult
    o_error,    \* orchestrator: the exception process_query raised
    o_handler,  \* orchestrator: the QueryResult each answering agent's handler returned (history)
    ag_pc,      \* aggregator: where aggregate is
    ag_results, \* aggregator: the results argument
    ag_join,    \* aggregator: the join_strategy argument
    ag_out,     \* aggregator: the AggregatedResult returned
    ag_calls,   \* aggregator: calls of synthesize_response (history)
    sv_pc,      \* server: where _handle_task_send is
    sv_body,    \* server: the request body
    sv_resp,    \* server: the JSON-RPC response
    sv_calls,   \* server: the query texts handed to query_handler (history)
    sv_exc,     \* server: the exception query_handler raised (history)
    cl_pc,      \* client: where query_a2a_agent is
    cl_reply,   \* client: what the POST produced
    cl_ret,     \* client: the dict returned
    oq_pc,      \* concurrent queries: where each process_query call is
    oq_flag,    \* concurrent queries: self._initialized of the shared orchestrator
    oq_runs,    \* concurrent queries: discover_all executions started (history)
    oq_ok,      \* concurrent queries: discover_all executions that returned (history)
    pl_pc,      \* planner: where _create_plan is
    pl_reg,     \* planner: the registry of the discovery service
    pl_analysis,\* planner: what analyze_query returned
    pl_plan,    \* planner: the QueryPlan returned
    oq_mid,     \* concurrent queries: a discover_all started while a query was past initialize (history)
    fi_pc,      \* front end: where each caller of initialize is
    fi_url,     \* front end: the position of each discover_all in agent_urls
    fi_lists,   \* front end: the list objects created for AgentDiscovery._discovered
    fi_cur,     \* front end: the list object AgentDiscovery._discovered refers to
    fi_agents,  \* front end: the list object FEAgent.discovered_agents refers to (0: its own empty list)
    fi_tools,   \* front end: FEAgent.tools
    fi_flag,    \* front end: FEAgent._initialized
    fi_runs,    \* front end: discover_all executions started (history)
    lp_pc,      \* agent loop: where FEAgent.query is
    lp_tools,   \* agent loop: the names of FEAgent.tools
    lp_iter,    \* agent loop: iteration
    lp_resp,    \* agent loop: response, what the model returned last
    lp_k,       \* agent loop: the position in response.tool_calls
    lp_msgs,    \* agent loop: what was appended to current_messages
    lp_steps,   \* agent loop: intermediate_steps
    lp_ret,     \* agent loop: the dict returned
    mg_pc,      \* migrations: where MigrationRunner.run is
    mg_dry,     \* migrations: dry_run
    mg_files,   \* migrations: the *.sql files of versions_dir
    mg_table,   \* migrations: the table _migrations exists
    mg_rows,    \* migrations: the names in _migrations
    mg_ran,     \* migrations: the migrations whose SQL was committed, in order
    mg_before,  \* migrations: the database when run was called (history)
    mg_pending, \* migrations: pending
    mg_executed,\* migrations: executed
    mg_ret,     \* migrations: the list returned
    dp_pc,      \* global pool: where each caller of get_db_pool is
    dp_inst,    \* global pool: the DatabasePool instances created, each with its _pool
    dp_global,  \* global pool: _global_pool (0: None)
    dp_mine,    \* global pool: the instance whose connect a caller awaits
    dp_ret,     \* global pool: what get_db_pool returned to each caller
    dp_created, \* global pool: asyncpg pools created (history)
    dp_close    \* global pool: where close_db_pool is

vvars == <<v_sql, v_wl, v_pc, v_out>>

davars == <<da_pc, da_sql, da_vout, da_ok, da_holds, da_acq, da_fetched, da_rows,
            da_result, pool_free>>

dvars == <<disc_pc, disc_i, disc_found, disc_agents, disc_parsed, disc_log, disc_pass>>

ovars == <<o_pc, o_init, o_plan, o_task, o_arrival, o_results, o_synth, o_out, o_error,
           o_handler>>

agvars == <<ag_pc, ag_results, ag_join, ag_out, ag_calls>>

svvars == <<sv_pc, sv_body, sv_resp, sv_calls, sv_exc>>

clvars == <<cl_pc, cl_reply, cl_ret>>

oqvars == <<oq_pc, oq_flag, oq_runs, oq_ok, oq_mid>>

plvars == <<pl_pc, pl_reg, pl_analysis, pl_plan>>

xvars == <<agvars, svvars, clvars, oqvars, plvars>>

fivars == <<fi_pc, fi_url, fi_lists, fi_cur, fi_agents, fi_tools, fi_flag, fi_runs>>

\* the front end and the database layer
lpvars == <<lp_pc, lp_tools, lp_iter, lp_resp, lp_k, lp_msgs, lp_steps, lp_ret>>

mgvars == <<mg_pc, mg_dry, mg_files, mg_table, mg_rows, mg_ran, mg_before, mg_pending,
            mg_executed, mg_ret>>

dpvars == <<dp_pc, dp_inst, dp_global, dp_mine, dp_ret, dp_created, dp_close>>

yvars == <<fivars, lpvars, mgvars, dpvars>>

vars == <<vvars, davars, dvars, ovars, agvars, svvars, clvars, oqvars, plvars, yvars>>

ValidatorInit ==
    /\ v_sql \in SqlInputs
    /\ v_wl \in Whitelists
    /\ v_pc = "call"
    /\ v_out = Passed

ValidatorIdle ==
    /\ v_sql = <<>>
    /\ v_wl = NoWhitelist
    /\ v_pc = "idle"
    /\ v_out = Passed

\* validator.validate(sql)
ValidateCall ==
    /\ v_pc = "call"
    /\ v_out' \in Validate(v_sql, v_wl)
    /\ v_pc' = "done"
    /\ UNCHANGED <<v_sql, v_wl>>
    /\ UNCHANGED <<davars, dvars, ovars, xvars, yvars>>

NotValidated == [raised |-> FALSE, message |-> "<not called>", table |-> <<>>]

DataAgentInit ==
    /\ da_pc = [h \in Handlers |-> "generate"]
    /\ da_sql = [h \in Handlers |-> <<>>]
    /\ da_vout = [h \in Handlers |-> NotValidated]
    /\ da_ok = [h \in Handlers |-> {}]
    /\ da_holds = [h \in Handlers |-> FALSE]
    /\ da_acq = [h \in Handlers |-> 0]
    /\ da_fetched = [h \in Handlers |-> <<>>]
    /\ da_rows = [h \in Handlers |-> NoResult]
    /\ da_result = [h \in Handlers |-> NoResult]
    /\ pool_free = PoolSize

\* llm_client.generate_sql raises (LLMError): the except branch returns
DA_GenerateFails(h) ==
    /\ da_pc[h] = "generate"
    /\ da_pc' = [da_pc EXCEPT ![h] = "done"]
    /\ da_result' = [da_result EXCEPT ![h] = FailedQuery("LLM call failed", <<>>)]
    /\ UNCHANGED <<da_sql, da_vout, da_ok, da_holds, da_acq, da_fetched, da_rows, pool_free>>
    /\ UNCHANGED <<vvars, dvars, ovars, xvars, yvars>>

\* generate_sql returns sql_result; sql_validator.validate(sql_result.sql) runs;
\* on SQLInjectionError the except branch returns, otherwise _execute_query
\* starts and waits for a pool connection
DA_Generated(h) ==
    /\ da_pc[h] = "generate"
    /\ \E sql \in AgentSqls : \E out \in Validate(sql, AgentWhitelist) :
        /\ da_sql' = [da_sql EXCEPT ![h] = sql]
        /\ da_vout' = [da_vout EXCEPT ![h] = out]
        /\ da_ok' = [da_ok EXCEPT ![h] = IF out.raised THEN @ ELSE @ \cup {sql}]
        /\ da_pc' = [da_pc EXCEPT ![h] = AfterValidate(out)]
        /\ da_result' = [da_result EXCEPT ![h] =
               IF AfterValidate(out) = "done" THEN FailedQuery(out.message, out.table) ELSE @]
    /\ UNCHANGED <<da_holds, da_acq, da_fetched, da_rows, pool_free>>
    /\ UNCHANGED <<vvars, dvars, ovars, xvars, yvars>>

\* _execute_query: a parameter conversion raises before the pool is touched
\* (wrapped into QueryExecutionError, returned by the except branch)
DA_ConvertFails(h) ==
    /\ da_pc[h] = "acquire"
    /\ da_pc' = [da_pc EXCEPT ![h] = "done"]
    /\ da_result' = [da_result EXCEPT ![h] = FailedQuery("Query failed: <conversion error>", <<>>)]
    /\ UNCHANGED <<da_sql, da_vout, da_ok, da_holds, da_acq, da_fetched, da_rows, pool_free>>
    /\ UNCHANGED <<vvars, dvars, ovars, xvars, yvars>>

\* async with self.db_pool.acquire() as conn: a connection is free;
\* conn.fetch(sql, *converted_params) is sent
DA_Acquire(h) ==
    /\ da_pc[h] = "acquire"
    /\ pool_free > 0
    /\ pool_free' = pool_free - 1
    /\ da_holds' = [da_holds EXCEPT ![h] = TRUE]
    /\ da_acq' = [da_acq EXCEPT ![h] = @ + 1]
    /\ da_fetched' = [da_fetched EXCEPT ![h] = Append(@, da_sql[h])]
    /\ da_pc' = [da_pc EXCEPT ![h] = "fetch"]
    /\ UNCHANGED <<da_sql, da_vout, da_ok, da_rows, da_result>>
    /\ UNCHANGED <<vvars, dvars, ovars, xvars, yvars>>

\* conn.fetch returns rows and every row is serialized
DA_FetchReturns(h) ==
    /\ da_pc[h] = "fetch"
    /\ \E rows \in DbRowSets :
        da_rows' = [da_rows EXCEPT ![h] = QueryResult(TRUE, FormatResponse(rows), Data(rows), NoneError)]
    /\ da_pc' = [da_pc EXCEPT ![h] = "release"]
    /\ UNCHANGED <<da_sql, da_vout, da_ok, da_holds, da_acq, da_fetched, da_result, pool_free>>
    /\ UNCHANGED <<vvars, dvars, ovars, xvars, yvars>>

\* variant: the exception leaves _execute_query without the connection being released
DA_FetchFailsLeaks(h) ==
    /\ da_pc[h] = "fetch"
    /\ \E why \in {"Query failed: <driver error>", "Query failed: <serialization error>"} :
        /\ da_rows' = [da_rows EXCEPT ![h] = FailedQuery(why, <<>>)]
        /\ da_result' = [da_result EXCEPT ![h] = FailedQuery(why, <<>>)]
    /\ da_pc' = [da_pc EXCEPT ![h] = "done"]
    /\ UNCHANGED <<da_sql, da_vout, da_ok, da_holds, da_acq, da_fetched, pool_free>>
    /\ UNCHANGED <<vvars, dvars, ovars, xvars, yvars>>

\* conn.fetch raises a driver error, or _serialize_row raises
DA_FetchFails(h) ==
    /\ da_pc[h] = "fetch"
    /\ \E why \in {"Query failed: <driver error>", "Query failed: <serialization error>"} :
        da_rows' = [da_rows EXCEPT ![h] = FailedQuery(why, <<>>)]
    /\ da_pc' = [da_pc EXCEPT ![h] = "release"]
    /\ UNCHANGED <<da_sql, da_vout, da_ok, da_holds, da_acq, da_fetched, da_result, pool_free>>
    /\ UNCHANGED <<vvars, dvars, ovars, xvars, yvars>>

\* leaving the async with block releases the connection on either path; then
\* process_query returns the QueryResult
DA_Release(h) ==
    /\ da_pc[h] = "release"
    /\ pool_free' = pool_free + 1
    /\ da_holds' = [da_holds EXCEPT ![h] = FALSE]
    /\ da_result' = [da_result EXCEPT ![h] = da_rows[h]]
    /\ da_pc' = [da_pc EXCEPT ![h] = "done"]
    /\ UNCHANGED <<da_sql, da_vout, da_ok, da_acq, da_fetched, da_rows>>
    /\ UNCHANGED <<vvars, dvars, ovars, xvars, yvars>>

DataAgentIdle ==
    /\ da_pc = [h \in Handlers |-> "idle"]
    /\ da_sql = [h \in Handlers |-> <<>>]
    /\ da_vout = [h \in Handlers |-> NotValidated]
    /\ da_ok = [h \in Handlers |-> {}]
    /\ da_holds = [h \in Handlers |-> FALSE]
    /\ da_acq = [h \in Handlers |-> 0]
    /\ da_fetched = [h \in Handlers |-> <<>>]
    /\ da_rows = [h \in Handlers |-> NoResult]
    /\ da_result = [h \in Handlers |-> NoResult]
    /\ pool_free = PoolSize

DataAgentNext ==
    \E h \in Handlers :
        \/ DA_GenerateFails(h)
        \/ DA_Generated(h)
        \/ DA_ConvertFails(h)
        \/ DA_Acquire(h)
        \/ DA_FetchReturns(h)
        \/ DA_FetchFails(h)
        \/ DA_Release(h)

DiscoveryInit ==
    /\ disc_pc = "idle"
    /\ disc_i = 1
    /\ disc_found = <<>>
    /\ disc_agents = <<>>
    /\ disc_parsed = 0
    /\ disc_log = "none"
    /\ disc_pass = 0

\* discover_all() is called: discovered = []
Disc_Start ==
    /\ disc_pc # "fetching"
    /\ disc_pass < MaxPasses
    /\ disc_pc' = "fetching"
    /\ disc_pass' = disc_pass + 1
    /\ disc_i' = 1
    /\ disc_found' = <<>>
    /\ disc_parsed' = 0
    /\ disc_log' = "none"
    /\ UNCHANGED disc_agents
    /\ UNCHANGED <<vvars, davars, ovars, xvars, yvars>>

\* _discover_agent returns an agent: it is appended and registered; logging
\* its skill ids raises for a skill without "id", which the except clause
\* only logs
Disc_FetchCard ==
    /\ disc_pc = "fetching"
    /\ disc_i <= NumUrls
    /\ \E card \in Cards :
        LET agent == DiscoveredAgent(card.name, AgentUrls[disc_i], card.skills)
        IN  /\ disc_found' = Append(disc_found, agent)
            /\ disc_agents' = RegistryPut(disc_agents, agent)
            /\ disc_log' = IF \E k \in DOMAIN card.skills : card.skills[k] = NoId
                           THEN "KeyError: 'id'" ELSE disc_log
    /\ disc_parsed' = disc_parsed + 1
    /\ disc_i' = disc_i + 1
    /\ UNCHANGED <<disc_pc, disc_pass>>
    /\ UNCHANGED <<vvars, davars, ovars, xvars, yvars>>

\* _discover_agent raises: the URL is logged and skipped
Disc_FetchFails ==
    /\ disc_pc = "fetching"
    /\ disc_i <= NumUrls
    /\ \E why \in FetchFailures : disc_log' = why
    /\ disc_i' = disc_i + 1
    /\ UNCHANGED <<disc_pc, disc_found, disc_agents, disc_parsed, disc_pass>>
    /\ UNCHANGED <<vvars, davars, ovars, xvars, yvars>>

\* after the loop: raise AgentDiscoveryError or return discovered
Disc_Finish ==
    /\ disc_pc = "fetching"
    /\ disc_i = NumUrls + 1
    /\ disc_pc' = DiscoverOutcome(disc_found)
    /\ UNCHANGED <<disc_i, disc_found, disc_agents, disc_parsed, disc_log, disc_pass>>
    /\ UNCHANGED <<vvars, davars, ovars, xvars, yvars>>

DiscoveryNext == Disc_Start \/ Disc_FetchCard \/ Disc_FetchFails \/ Disc_Finish

NoOutput == AggregatedResult(FALSE, "<none>", NoneData, <<>>)

OrchestratorInit ==
    /\ o_pc = "start"
    /\ o_init = FALSE
    /\ o_plan = NoPlan
    /\ o_task = <<>>
    /\ o_arrival = <<>>
    /\ o_results = <<>>
    /\ o_synth = <<>>
    /\ o_out = NoOutput
    /\ o_error = ""
    /\ o_handler = <<>>

OrchestratorIdle ==
    /\ o_pc = "idle"
    /\ o_init = FALSE
    /\ o_plan = NoPlan
    /\ o_task = <<>>
    /\ o_arrival = <<>>
    /\ o_results = <<>>
    /\ o_synth = <<>>
    /\ o_out = NoOutput
    /\ o_error = ""
    /\ o_handler = <<>>

discIdle == <<disc_pc, disc_i, disc_found, disc_parsed, disc_log, disc_pass>>

\* process_query: await self.initialize() finds agents; _create_plan reads
\* get_all_skills (skill["id"]) and calls analyze_query
O_Initialize ==
    /\ o_pc = "start"
    /\ ~o_init
    /\ \E reg \in OrchRegistries :
        /\ disc_agents' = reg
        /\ o_init' = TRUE
        /\ IF RegistryBroken(reg)
           THEN o_pc' = "raised" /\ o_error' = "KeyError: 'id'"
           ELSE o_pc' = "plan" /\ o_error' = o_error
    /\ UNCHANGED <<o_plan, o_task, o_arrival, o_results, o_synth, o_out, o_handler>>
    /\ UNCHANGED <<vvars, davars, discIdle, xvars, yvars>>

\* process_query: discover_all raises AgentDiscoveryError
O_InitializeFails ==
    /\ o_pc = "start"
    /\ ~o_init
    /\ o_pc' = "raised"
    /\ o_error' = "No agents discovered"
    /\ UNCHANGED <<o_init, o_plan, o_task, o_arrival, o_results, o_synth, o_out, o_handler>>
    /\ UNCHANGED <<vvars, davars, dvars, xvars, yvars>>

\* _create_plan: analyze_query raises LLMError
O_AnalyzeFails ==
    /\ o_pc = "plan"
    /\ o_pc' = "raised"
    /\ o_error' = "LLMError: analyze_query"
    /\ UNCHANGED <<o_init, o_plan, o_task, o_arrival, o_results, o_synth, o_out, o_handler>>
    /\ UNCHANGED <<vvars, davars, dvars, xvars, yvars>>

\* _create_plan returns the plan; _execute_plan creates one dispatch per
\* (agent, sub_query) pair and awaits asyncio.gather
O_Planned ==
    /\ o_pc = "plan"
    /\ \E analysis \in Analyses :
        LET plan == CreatePlan(disc_agents, analysis, UserQuery)
        IN  /\ o_plan' = plan
            /\ o_task' = [i \in DOMAIN plan.agents |-> Pending]
            /\ o_handler' = [i \in DOMAIN plan.agents |-> NoResult]
    /\ o_pc' = "dispatch"
    /\ UNCHANGED <<o_init, o_arrival, o_results, o_synth, o_out, o_error>>
    /\ UNCHANGED <<vvars, davars, dvars, xvars, yvars>>

\* _query_agent: the agent answers with a success envelope built by its
\* server from the handler's QueryResult
O_DispatchAnswered(i) ==
    /\ o_pc = "dispatch"
    /\ i \in DOMAIN o_task
    /\ o_task[i].state = "pending"
    /\ \E qr \in HandlerResults(o_plan.agents[i].name) :
        /\ o_task' = [o_task EXCEPT ![i] =
               Returned("success", DecodeSuccess(o_plan.agents[i].name, SuccessParts(qr)))]
        /\ o_handler' = [o_handler EXCEPT ![i] = qr]
    /\ o_arrival' = Append(o_arrival, i)
    /\ UNCHANGED <<o_pc, o_init, o_plan, o_results, o_synth, o_out, o_error>>
    /\ UNCHANGED <<vvars, davars, dvars, xvars, yvars>>

\* _query_agent: the agent answers with an error envelope
O_DispatchRpcError(i) ==
    /\ o_pc = "dispatch"
    /\ i \in DOMAIN o_task
    /\ o_task[i].state = "pending"
    /\ \E message \in {"Invalid params: no text found", "Unknown error"} :
        o_task' = [o_task EXCEPT ![i] =
            Returned("rpc error", DecodeError(o_plan.agents[i].name, message))]
    /\ o_arrival' = Append(o_arrival, i)
    /\ UNCHANGED <<o_pc, o_init, o_plan, o_results, o_synth, o_out, o_error, o_handler>>
    /\ UNCHANGED <<vvars, davars, dvars, xvars, yvars>>

\* _query_agent raises: an HTTP error or a timeout as AgentCommunicationError,
\* anything else as it is
O_DispatchRaises(i) ==
    /\ o_pc = "dispatch"
    /\ i \in DOMAIN o_task
    /\ o_task[i].state = "pending"
    /\ \E e \in DispatchExceptions(o_plan.agents[i].name) :
        o_task' = [o_task EXCEPT ![i] = e]
    /\ o_arrival' = Append(o_arrival, i)
    /\ UNCHANGED <<o_pc, o_init, o_plan, o_results, o_synth, o_out, o_error, o_handler>>
    /\ UNCHANGED <<vvars, davars, dvars, xvars, yvars>>

\* variant: the wait ends with the first dispatch that resolved
O_GatheredFirstCompleted ==
    /\ o_pc = "dispatch"
    /\ \E i \in DOMAIN o_task : o_task[i].state # "pending"
    /\ LET gathered == Gathered(o_task, o_arrival)
           results  == [i \in DOMAIN gathered |-> ProcessedResult(gathered[i], o_plan.agents[i])]
           agg      == Aggregate(results, o_plan.join_strategy)
       IN  /\ o_results' = results
           /\ o_out' = agg.out
           /\ o_pc' = IF agg.synth THEN "synthesize" ELSE "returned"
           /\ o_synth' = IF agg.synth
                         THEN Append(o_synth, SynthesisInput(SelectSeq(results, IsSuccess)))
                         ELSE o_synth
    /\ UNCHANGED <<o_init, o_plan, o_task, o_arrival, o_error, o_handler>>
    /\ UNCHANGED <<vvars, davars, dvars, xvars, yvars>>

\* gather returns once every dispatch resolved; exceptions are converted;
\* aggregate runs up to its return or to the synthesize_response call
O_Gathered ==
    /\ o_pc = "dispatch"
    /\ \A i \in DOMAIN o_task : o_task[i].state # "pending"
    /\ LET gathered == Gathered(o_task, o_arrival)
           results  == [i \in DOMAIN gathered |-> ProcessedResult(gathered[i], o_plan.agents[i])]
           agg      == Aggregate(results, o_plan.join_strategy)
       IN  /\ o_results' = results
           /\ o_out' = agg.out
           /\ o_pc' = IF agg.synth THEN "synthesize" ELSE "returned"
           /\ o_synth' = IF agg.synth
                         THEN Append(o_synth, SynthesisInput(SelectSeq(results, IsSuccess)))
                         ELSE o_synth
    /\ UNCHANGED <<o_init, o_plan, o_task, o_arrival, o_error, o_handler>>
    /\ UNCHANGED <<vvars, davars, dvars, xvars, yvars>>

\* synthesize_response returns the response text; aggregate and process_query return
O_Synthesized ==
    /\ o_pc = "synthesize"
    /\ o_out' = [o_out EXCEPT !.response_text = "<synthesized answer>"]
    /\ o_pc' = "returned"
    /\ UNCHANGED <<o_init, o_plan, o_task, o_arrival, o_results, o_synth, o_error, o_handler>>
    /\ UNCHANGED <<vvars, davars, dvars, xvars, yvars>>

\* synthesize_response raises LLMError, which leaves aggregate and process_query
O_SynthesizeFails ==
    /\ o_pc = "synthesize"
    /\ o_out' = NoOutput
    /\ o_pc' = "raised"
    /\ o_error' = "LLMError: synthesize_response"
    /\ UNCHANGED <<o_init, o_plan, o_task, o_arrival, o_results, o_synth, o_handler>>
    /\ UNCHANGED <<vvars, davars, dvars, xvars, yvars>>

PlanSlots == 1..3

OrchestratorNext ==
    \/ O_Initialize
    \/ O_InitializeFails
    \/ O_AnalyzeFails
    \/ O_Planned
    \/ \E i \in PlanSlots : O_DispatchAnswered(i)
    \/ \E i \in PlanSlots : O_DispatchRpcError(i)
    \/ \E i \in PlanSlots : O_DispatchRaises(i)
    \/ O_Gathered
    \/ O_Synthesized
    \/ O_SynthesizeFails

AggregatorInit ==
    /\ ag_pc = "call"
    /\ ag_results \in AggResultLists(MaxResults)
    /\ ag_join \in AggJoins
    /\ ag_out = NoOutput
    /\ ag_calls = <<>>

AggregatorIdle ==
    /\ ag_pc = "idle"
    /\ ag_results = <<>>
    /\ ag_join = NoJoin
    /\ ag_out = NoOutput
    /\ ag_calls = <<>>

\* aggregate(results, original_query, join_strategy) up to its return or to
\* the await of synthesize_response
Agg_Aggregate ==
    /\ ag_pc = "call"
    /\ LET agg == Aggregate(ag_results, ag_join)
       IN  /\ ag_out' = agg.out
           /\ ag_pc' = IF agg.synth THEN "synthesize" ELSE "returned"
           /\ ag_calls' = IF agg.synth
                          THEN Append(ag_calls,
                                   [original_query |-> UserQuery,
                                    agent_results |-> SynthesisInput(SelectSeq(ag_results, IsSuccess))])
                          ELSE ag_calls
    /\ UNCHANGED <<ag_results, ag_join>>
    /\ UNCHANGED <<vvars, davars, dvars, ovars, plvars, svvars, clvars, oqvars, yvars>>

\* synthesize_response returns the response text; aggregate returns
Agg_Synthesized ==
    /\ ag_pc = "synthesize"
    /\ ag_out' = [ag_out EXCEPT !.response_text = "<synthesized answer>"]
    /\ ag_pc' = "returned"
    /\ UNCHANGED <<ag_results, ag_join, ag_calls>>
    /\ UNCHANGED <<vvars, davars, dvars, ovars, plvars, svvars, clvars, oqvars, yvars>>

\* synthesize_response raises LLMError, which leaves aggregate
Agg_SynthesizeFails ==
    /\ ag_pc = "synthesize"
    /\ ag_out' = NoOutput
    /\ ag_pc' = "raised"
    /\ UNCHANGED <<ag_results, ag_join, ag_calls>>
    /\ UNCHANGED <<vvars, davars, dvars, ovars, plvars, svvars, clvars, oqvars, yvars>>

AggregatorNext == Agg_Aggregate \/ Agg_Synthesized \/ Agg_SynthesizeFails

ServerInit ==
    /\ sv_pc = "received"
    /\ sv_body \in RequestBodies
    /\ sv_resp = NoResponse
    /\ sv_calls = <<>>
    /\ sv_exc = NoException

ServerIdle ==
    /\ sv_pc = "idle"
    /\ sv_body = NoBody
    /\ sv_resp = NoResponse
    /\ sv_calls = <<>>
    /\ sv_exc = NoException

\* _handle_task_send: request.json(), the checks and the extraction of the
\* query text; it answers with an error envelope or awaits query_handler
Srv_Receive ==
    /\ sv_pc = "received"
    /\ LET pre == Precheck(sv_body)
       IN  IF pre.call
           THEN /\ sv_pc' = "handling"
                /\ sv_calls' = Append(sv_calls, pre.text)
                /\ sv_resp' = sv_resp
           ELSE /\ sv_pc' = "responded"
                /\ sv_calls' = sv_calls
                /\ sv_resp' = pre.response
    /\ UNCHANGED <<sv_body, sv_exc>>
    /\ UNCHANGED <<vvars, davars, dvars, ovars, plvars, agvars, clvars, oqvars, yvars>>

\* query_handler returns a QueryResult: _success_response
Srv_HandlerReturns ==
    /\ sv_pc = "handling"
    /\ \E result \in HandlerResults("customers") :
        sv_resp' = SuccessResponse(sv_body.id, result)
    /\ sv_pc' = "responded"
    /\ UNCHANGED <<sv_body, sv_calls, sv_exc>>
    /\ UNCHANGED <<vvars, davars, dvars, ovars, plvars, agvars, clvars, oqvars, yvars>>

\* query_handler raises: the except clauses
Srv_HandlerRaises ==
    /\ sv_pc = "handling"
    /\ \E exc \in HandlerExceptions :
        /\ sv_exc' = exc
        /\ sv_resp' = OnException(sv_body, exc)
    /\ sv_pc' = "responded"
    /\ UNCHANGED <<sv_body, sv_calls>>
    /\ UNCHANGED <<vvars, davars, dvars, ovars, plvars, agvars, clvars, oqvars, yvars>>

ServerNext == Srv_Receive \/ Srv_HandlerReturns \/ Srv_HandlerRaises

ClientInit ==
    /\ cl_pc = "posting"
    /\ cl_reply = NoReply
    /\ cl_ret = NoReturn

ClientIdle ==
    /\ cl_pc = "idle"
    /\ cl_reply = NoReply
    /\ cl_ret = NoReturn

\* client.post returns and response.json() gives a JSON value: the error
\* envelope or the artifacts are decoded (or decoding raises) and the dict returned
Cl_Responded ==
    /\ cl_pc = "posting"
    /\ \E reply \in {r \in ClientReplies : r.kind = "json"} :
        /\ cl_reply' = reply
        /\ cl_ret' = ClientReturn(reply, ClientAgent)
    /\ cl_pc' = "returned"
    /\ UNCHANGED <<vvars, davars, dvars, ovars, plvars, agvars, svvars, oqvars, yvars>>

\* client.post or response.json() raises: the except clauses return the dict
Cl_Raised ==
    /\ cl_pc = "posting"
    /\ \E reply \in {r \in ClientReplies : r.kind # "json"} :
        /\ cl_reply' = reply
        /\ cl_ret' = ClientReturn(reply, ClientAgent)
    /\ cl_pc' = "returned"
    /\ UNCHANGED <<vvars, davars, dvars, ovars, plvars, agvars, svvars, oqvars, yvars>>

ClientNext == Cl_Responded \/ Cl_Raised

QueriesInit ==
    /\ oq_pc = [q \in Queries |-> "start"]
    /\ oq_flag = FALSE
    /\ oq_runs = 0
    /\ oq_ok = 0
    /\ oq_mid = FALSE

QueriesIdle ==
    /\ oq_pc = [q \in Queries |-> "idle"]
    /\ oq_flag = FALSE
    /\ oq_runs = 0
    /\ oq_ok = 0
    /\ oq_mid = FALSE

\* process_query: await self.initialize() with self._initialized set returns at once
OQ_AlreadyInitialized(q) ==
    /\ oq_pc[q] = "start"
    /\ oq_flag
    /\ oq_pc' = [oq_pc EXCEPT ![q] = "planning"]
    /\ UNCHANGED <<oq_flag, oq_runs, oq_ok, oq_mid>>
    /\ UNCHANGED <<vvars, davars, dvars, ovars, plvars, agvars, svvars, clvars, yvars>>

\* initialize: `if not self._initialized:` holds; discover_all() is awaited
OQ_StartDiscovery(q) ==
    /\ oq_pc[q] = "start"
    /\ ~oq_flag
    /\ oq_pc' = [oq_pc EXCEPT ![q] = "discovering"]
    /\ oq_runs' = oq_runs + 1
    /\ oq_mid' = (oq_mid \/ \E r \in Queries : MidQuery(oq_pc[r]))
    /\ UNCHANGED <<oq_flag, oq_ok>>
    /\ UNCHANGED <<vvars, davars, dvars, ovars, plvars, agvars, svvars, clvars, yvars>>

\* discover_all returns: self._initialized = True
OQ_DiscoveryReturns(q) ==
    /\ oq_pc[q] = "discovering"
    /\ oq_flag' = TRUE
    /\ oq_ok' = oq_ok + 1
    /\ oq_pc' = [oq_pc EXCEPT ![q] = "planning"]
    /\ UNCHANGED <<oq_runs, oq_mid>>
    /\ UNCHANGED <<vvars, davars, dvars, ovars, plvars, agvars, svvars, clvars, yvars>>

\* discover_all raises AgentDiscoveryError: the flag stays unset
OQ_DiscoveryRaises(q) ==
    /\ oq_pc[q] = "discovering"
    /\ oq_pc' = [oq_pc EXCEPT ![q] = "raised"]
    /\ UNCHANGED <<oq_flag, oq_runs, oq_ok, oq_mid>>
    /\ UNCHANGED <<vvars, davars, dvars, ovars, plvars, agvars, svvars, clvars, yvars>>

\* _create_plan returns
OQ_Planned(q) ==
    /\ oq_pc[q] = "planning"
    /\ oq_pc' = [oq_pc EXCEPT ![q] = "dispatching"]
    /\ UNCHANGED <<oq_flag, oq_runs, oq_ok, oq_mid>>
    /\ UNCHANGED <<vvars, davars, dvars, ovars, plvars, agvars, svvars, clvars, yvars>>

\* _create_plan raises (analyze_query)
OQ_PlanFails(q) ==
    /\ oq_pc[q] = "planning"
    /\ oq_pc' = [oq_pc EXCEPT ![q] = "raised"]
    /\ UNCHANGED <<oq_flag, oq_runs, oq_ok, oq_mid>>
    /\ UNCHANGED <<vvars, davars, dvars, ovars, plvars, agvars, svvars, clvars, yvars>>

\* _execute_plan returns
OQ_Dispatched(q) ==
    /\ oq_pc[q] = "dispatching"
    /\ oq_pc' = [oq_pc EXCEPT ![q] = "aggregating"]
    /\ UNCHANGED <<oq_flag, oq_runs, oq_ok, oq_mid>>
    /\ UNCHANGED <<vvars, davars, dvars, ovars, plvars, agvars, svvars, clvars, yvars>>

\* aggregate returns and process_query returns
OQ_Returned(q) ==
    /\ oq_pc[q] = "aggregating"
    /\ oq_pc' = [oq_pc EXCEPT ![q] = "returned"]
    /\ UNCHANGED <<oq_flag, oq_runs, oq_ok, oq_mid>>
    /\ UNCHANGED <<vvars, davars, dvars, ovars, plvars, agvars, svvars, clvars, yvars>>

QueriesNext ==
    \E q \in Queries :
        \/ OQ_AlreadyInitialized(q)
        \/ OQ_StartDiscovery(q)
        \/ OQ_DiscoveryReturns(q)
        \/ OQ_DiscoveryRaises(q)
        \/ OQ_Planned(q)
        \/ OQ_PlanFails(q)
        \/ OQ_Dispatched(q)
        \/ OQ_Returned(q)


\* _create_plan is called on an orchestrator whose discovery has run
PlannerInit ==
    /\ pl_pc = "start"
    /\ pl_reg \in OrchRegistries
    /\ pl_analysis = NoAnalysis
    /\ pl_plan = NoPlan

PlannerIdle ==
    /\ pl_pc = "idle"
    /\ pl_reg = <<>>
    /\ pl_analysis = NoAnalysis
    /\ pl_plan = NoPlan

\* _create_plan: get_all_skills reads skill["id"] of every registered skill
\* and raises KeyError before analyze_query is called
Plan_SkillsRaise ==
    /\ pl_pc = "start"
    /\ RegistryBroken(pl_reg)
    /\ pl_pc' = "raised"
    /\ UNCHANGED <<pl_reg, pl_analysis, pl_plan>>
    /\ UNCHANGED <<vvars, davars, dvars, ovars, agvars, svvars, clvars, oqvars, yvars>>

\* _create_plan: analyze_query returns a QueryAnalysisResult
Plan_Analyzed ==
    /\ pl_pc = "start"
    /\ ~RegistryBroken(pl_reg)
    /\ pl_analysis' \in Analyses
    /\ pl_pc' = "analyzed"
    /\ UNCHANGED <<pl_reg, pl_plan>>
    /\ UNCHANGED <<vvars, davars, dvars, ovars, agvars, svvars, clvars, oqvars, yvars>>

\* _create_plan: analyze_query raises LLMError, which leaves _create_plan
Plan_AnalyzeFails ==
    /\ pl_pc = "start"
    /\ ~RegistryBroken(pl_reg)
    /\ pl_pc' = "raised"
    /\ UNCHANGED <<pl_reg, pl_analysis, pl_plan>>
    /\ UNCHANGED <<vvars, davars, dvars, ovars, agvars, svvars, clvars, oqvars, yvars>>

\* _create_plan after analyze_query returned: the mapping loop, the fallback
\* and the QueryPlan
Plan_Create ==
    /\ pl_pc = "analyzed"
    /\ pl_plan' = CreatePlan(pl_reg, pl_analysis, UserQuery)
    /\ pl_pc' = "planned"
    /\ UNCHANGED <<pl_reg, pl_analysis>>
    /\ UNCHANGED <<vvars, davars, dvars, ovars, agvars, svvars, clvars, oqvars, yvars>>

PlannerNext == Plan_SkillsRaise \/ Plan_Analyzed \/ Plan_AnalyzeFails \/ Plan_Create

(***************************************************************************)
(* FEAgent.initialize (fe_agent/agent.py) over AgentDiscovery.discover_all *)
(* (fe_agent/tools/discovery.py): concurrent callers of one FEAgent        *)
(***************************************************************************)
NumCallers == 2

Callers == 1..NumCallers

NumAgentUrls == 2

\* DiscoveredAgent.from_agent_card(card, base_url) for the card served at the
\* url-th entry of agent_urls
FromAgentCard(url) == [name |-> url, base_url |-> url]

\* create_a2a_tools: one tool per agent of the list, in list order
CreateA2ATools(agents) == [i \in DOMAIN agents |-> [tool_for |-> agents[i].name]]

\* the list FEAgent.discovered_agents refers to
DiscoveredAgents == IF fi_agents = 0 THEN <<>> ELSE fi_lists[fi_agents]

FrontendInit ==
    /\ fi_pc = [c \in Callers |-> "call"]
    /\ fi_url = [c \in Callers |-> 0]
    /\ fi_lists = <<<<>>>>
    /\ fi_cur = 1
    /\ fi_agents = 0
    /\ fi_tools = <<>>
    /\ fi_flag = FALSE
    /\ fi_runs = 0

FrontendIdle ==
    /\ fi_pc = [c \in Callers |-> "idle"]
    /\ fi_url = [c \in Callers |-> 0]
    /\ fi_lists = <<<<>>>>
    /\ fi_cur = 1
    /\ fi_agents = 0
    /\ fi_tools = <<>>
    /\ fi_flag = FALSE
    /\ fi_runs = 0

\* query / get_available_agents: `if not self._initialized` is false, or
\* initialize returns at once because _initialized is set
Fi_AlreadyInitialized(c) ==
    /\ fi_pc[c] = "call"
    /\ fi_flag
    /\ fi_pc' = [fi_pc EXCEPT ![c] = "ready"]
    /\ UNCHANGED <<fi_url, fi_lists, fi_cur, fi_agents, fi_tools, fi_flag, fi_runs>>
    /\ UNCHANGED <<vvars, davars, dvars, ovars, xvars, lpvars, mgvars, dpvars>>

\* initialize with _initialized unset, up to the first await of discover_all:
\* self._discovered = [] binds a new list
Fi_Initialize(c) ==
    /\ fi_pc[c] = "call"
    /\ ~fi_flag
    /\ fi_lists' = Append(fi_lists, <<>>)
    /\ fi_cur' = Len(fi_lists) + 1
    /\ fi_runs' = fi_runs + 1
    /\ fi_url' = [fi_url EXCEPT ![c] = 1]
    /\ fi_pc' = [fi_pc EXCEPT ![c] = IF NumAgentUrls = 0 THEN "closing" ELSE "fetching"]
    /\ UNCHANGED <<fi_agents, fi_tools, fi_flag>>
    /\ UNCHANGED <<vvars, davars, dvars, ovars, xvars, lpvars, mgvars, dpvars>>

\* await self._discover_agent(client, url) returns an agent, which is appended
\* to the list self._discovered refers to now, or raises, which is logged
Fi_DiscoverAgent(c) ==
    /\ fi_pc[c] = "fetching"
    /\ \E found \in BOOLEAN :
        fi_lists' = IF found
                    THEN [fi_lists EXCEPT ![fi_cur] = Append(@, FromAgentCard(fi_url[c]))]
                    ELSE fi_lists
    /\ fi_url' = [fi_url EXCEPT ![c] = @ + 1]
    /\ fi_pc' = [fi_pc EXCEPT ![c] = IF fi_url[c] = NumAgentUrls THEN "closing" ELSE "fetching"]
    /\ UNCHANGED <<fi_cur, fi_agents, fi_tools, fi_flag, fi_runs>>
    /\ UNCHANGED <<vvars, davars, dvars, ovars, xvars, lpvars, mgvars, dpvars>>

\* the client is closed, discover_all returns self._discovered, and initialize
\* stores it, builds the tools from it and sets _initialized
Fi_Initialized(c) ==
    /\ fi_pc[c] = "closing"
    /\ fi_agents' = fi_cur
    /\ fi_tools' = CreateA2ATools(fi_lists[fi_cur])
    /\ fi_flag' = TRUE
    /\ fi_pc' = [fi_pc EXCEPT ![c] = "ready"]
    /\ UNCHANGED <<fi_url, fi_lists, fi_cur, fi_runs>>
    /\ UNCHANGED <<vvars, davars, dvars, ovars, xvars, lpvars, mgvars, dpvars>>

FrontendNext ==
    \E c \in Callers :
        \/ Fi_AlreadyInitialized(c)
        \/ Fi_Initialize(c)
        \/ Fi_DiscoverAgent(c)
        \/ Fi_Initialized(c)

(***************************************************************************)
(* FEAgent.query (fe_agent/agent.py): the loop over model responses        *)
(***************************************************************************)
\* max_iterations
MaxIterations == 5

\* variant: the loop runs while iteration <= max_iterations
WhileConditionInclusive(iteration) == iteration <= MaxIterations

\* while iteration < max_iterations
WhileCondition(iteration) == iteration < MaxIterations

ToolNames == {"query_customers", "query_orders", "query_weather"}

\* a tool call of a response: name and id (args are passed through)
ToolCall(name, id) == [name |-> name, id |-> id]

NoCallId == <<>>

\* what the model may answer: content alone, or content with tool calls,
\* among them calls of a tool that does not exist
ModelAnswers ==
    {[content |-> "There are 42 customers.", tool_names |-> <<>>],
     [content |-> "", tool_names |-> <<"query_customers">>],
     [content |-> "", tool_names |-> <<"query_weather">>],
     [content |-> "Let me check.", tool_names |-> <<"query_weather", "query_orders">>],
     [content |-> "", tool_names |-> <<"query_customers", "query_customers">>]}

\* the response of invocation number n: the tool calls carry ids of their own
Response(answer, n) ==
    [content |-> answer.content,
     tool_calls |-> [k \in DOMAIN answer.tool_names |-> ToolCall(answer.tool_names[k], <<n, k>>)]]

NoModelResponse == [content |-> "", tool_calls |-> <<>>]

\* the AI response as appended to current_messages
AIMessage(response) ==
    [type |-> "ai", content |-> [kind |-> "text", of |-> response.content],
     tool_call_id |-> NoCallId, tool_calls |-> response.tool_calls]

\* ToolMessage(content=str(tool_result), tool_call_id=tool_call_id)
ToolMessage(content, tool_call_id) ==
    [type |-> "tool", content |-> content, tool_call_id |-> tool_call_id, tool_calls |-> <<>>]

\* what tool.ainvoke returns for the tool of that name
ToolOutput(name) == [kind |-> "output", of |-> name]

\* f"Tool {tool_name} not found"
ToolNotFound(name) == [kind |-> "not_found", of |-> name]

Apology ==
    "I apologize, but I wasn't able to complete the analysis. Please try rephrasing your question."

NoReturnValue == [returned |-> FALSE, response |-> "", intermediate_steps |-> <<>>]

ReturnValue(response, steps) ==
    [returned |-> TRUE, response |-> response, intermediate_steps |-> steps]

\* for tool in self.tools: if tool.name == tool_name
HasTool(tools, name) == \E i \in DOMAIN tools : tools[i] = name

AgentLoopInit ==
    /\ lp_pc = "invoke"
    /\ lp_tools \in {<<"query_customers", "query_orders">>,
                     <<"query_customers", "query_customers">>}
    /\ lp_iter = 0
    /\ lp_resp = NoModelResponse
    /\ lp_k = 0
    /\ lp_msgs = <<>>
    /\ lp_steps = <<>>
    /\ lp_ret = NoReturnValue

AgentLoopIdle ==
    /\ lp_pc = "idle"
    /\ lp_tools = <<>>
    /\ lp_iter = 0
    /\ lp_resp = NoModelResponse
    /\ lp_k = 0
    /\ lp_msgs = <<>>
    /\ lp_steps = <<>>
    /\ lp_ret = NoReturnValue

\* after the last tool call of a response: the loop condition, then the next
\* invocation or the return behind the loop
AfterToolCalls(k, steps) ==
    IF k < Len(lp_resp.tool_calls)
    THEN /\ lp_pc' = "tools"
         /\ lp_k' = k + 1
         /\ lp_ret' = lp_ret
    ELSE /\ lp_k' = 0
         /\ IF WhileCondition(lp_iter)
            THEN lp_pc' = "invoke" /\ lp_ret' = lp_ret
            ELSE lp_pc' = "returned" /\ lp_ret' = ReturnValue(Apology, steps)

\* iteration += 1 and llm_with_tools.ainvoke returns: a response with tool
\* calls is appended to the messages, one without is returned
Loop_ModelResponds ==
    /\ lp_pc = "invoke"
    /\ lp_iter' = lp_iter + 1
    /\ \E answer \in ModelAnswers :
        LET response == Response(answer, lp_iter + 1)
        IN  /\ lp_resp' = response
            /\ IF response.tool_calls # <<>>
               THEN /\ lp_msgs' = Append(lp_msgs, AIMessage(response))
                    /\ lp_pc' = "tools"
                    /\ lp_k' = 1
                    /\ lp_ret' = lp_ret
               ELSE /\ lp_msgs' = lp_msgs
                    /\ lp_pc' = "returned"
                    /\ lp_k' = 0
                    /\ lp_ret' = ReturnValue(response.content, lp_steps)
    /\ UNCHANGED <<lp_tools, lp_steps>>
    /\ UNCHANGED <<vvars, davars, dvars, ovars, xvars, fivars, mgvars, dpvars>>

\* a tool of the called name exists: the first one is invoked and its result
\* recorded and appended as a ToolMessage
Loop_ToolReturns ==
    /\ lp_pc = "tools"
    /\ HasTool(lp_tools, lp_resp.tool_calls[lp_k].name)
    /\ LET call == lp_resp.tool_calls[lp_k]
           steps == Append(lp_steps, [tool |-> call.name, output |-> ToolOutput(call.name)])
       IN  /\ lp_steps' = steps
           /\ lp_msgs' = Append(lp_msgs, ToolMessage(ToolOutput(call.name), call.id))
           /\ AfterToolCalls(lp_k, steps)
    /\ UNCHANGED <<lp_tools, lp_iter, lp_resp>>
    /\ UNCHANGED <<vvars, davars, dvars, ovars, xvars, fivars, mgvars, dpvars>>

\* no tool has the called name: tool_result stays None and becomes the
\* "not found" text
Loop_ToolNotFound ==
    /\ lp_pc = "tools"
    /\ ~HasTool(lp_tools, lp_resp.tool_calls[lp_k].name)
    /\ LET call == lp_resp.tool_calls[lp_k]
           steps == Append(lp_steps, [tool |-> call.name, output |-> ToolNotFound(call.name)])
       IN  /\ lp_steps' = steps
           /\ lp_msgs' = Append(lp_msgs, ToolMessage(ToolNotFound(call.name), call.id))
           /\ AfterToolCalls(lp_k, steps)
    /\ UNCHANGED <<lp_tools, lp_iter, lp_resp>>
    /\ UNCHANGED <<vvars, davars, dvars, ovars, xvars, fivars, mgvars, dpvars>>

AgentLoopNext == Loop_ModelResponds \/ Loop_ToolReturns \/ Loop_ToolNotFound

(***************************************************************************)
(* MigrationRunner.run (database/migrations/runner.py)                     *)
(***************************************************************************)
\* the migration files are named by their numbers; name order is number order
NumMigrations == 3

Migrations == 1..NumMigrations

\* sorted(...): the elements of a set of names in ascending order
RECURSIVE Sorted(_)
Sorted(names) ==
    IF names = {} THEN <<>>
    ELSE LET least == CHOOSE n \in names : \A o \in names : n <= o
         IN  <<least>> \o Sorted(names \ {least})

\* _get_pending(applied): the files in sorted order whose name is not applied
GetPending(files, applied) == Sorted({f \in files : f \notin applied})

\* applied = await self._get_applied(conn) if not dry_run else set()
AppliedFor(dry_run, rows) == IF dry_run THEN {} ELSE rows

Database(table, rows) == [table |-> table, rows |-> rows]

NoList == [returned |-> FALSE, names |-> <<>>]

ReturnedList(names) == [returned |-> TRUE, names |-> names]

\* run is called on a database without the tracking table or with it, holding
\* the names of migrations applied earlier
MigrationInit ==
    /\ mg_pc = "connect"
    /\ mg_dry \in BOOLEAN
    /\ mg_files \in SUBSET Migrations
    /\ mg_table \in BOOLEAN
    /\ mg_rows \in SUBSET Migrations
    /\ ~mg_table => mg_rows = {}
    /\ mg_ran = <<>>
    /\ mg_before = Database(mg_table, mg_rows)
    /\ mg_pending = <<>>
    /\ mg_executed = <<>>
    /\ mg_ret = NoList

MigrationIdle ==
    /\ mg_pc = "idle"
    /\ mg_dry = FALSE
    /\ mg_files = {}
    /\ mg_table = FALSE
    /\ mg_rows = {}
    /\ mg_ran = <<>>
    /\ mg_before = Database(FALSE, {})
    /\ mg_pending = <<>>
    /\ mg_executed = <<>>
    /\ mg_ret = NoList

\* _get_connection returns; a dry run goes on without a further await to its
\* return: applied, pending and the names appended one by one
Mig_Connected ==
    /\ mg_pc = "connect"
    /\ IF mg_dry
       THEN LET pending == GetPending(mg_files, AppliedFor(TRUE, mg_rows))
            IN  /\ mg_pending' = pending
                /\ mg_executed' = pending
                /\ mg_ret' = ReturnedList(pending)
                /\ mg_pc' = "returned"
       ELSE /\ mg_pc' = "table"
            /\ UNCHANGED <<mg_pending, mg_executed, mg_ret>>
    /\ UNCHANGED <<mg_dry, mg_files, mg_table, mg_rows, mg_ran, mg_before>>
    /\ UNCHANGED <<vvars, davars, dvars, ovars, xvars, fivars, lpvars, dpvars>>

\* _get_connection raises
Mig_ConnectFails ==
    /\ mg_pc = "connect"
    /\ mg_pc' = "raised"
    /\ UNCHANGED <<mg_dry, mg_files, mg_table, mg_rows, mg_ran, mg_before, mg_pending,
                   mg_executed, mg_ret>>
    /\ UNCHANGED <<vvars, davars, dvars, ovars, xvars, fivars, lpvars, dpvars>>

\* _create_tracking_table: CREATE TABLE IF NOT EXISTS _migrations
Mig_CreateTrackingTable ==
    /\ mg_pc = "table"
    /\ mg_table' = TRUE
    /\ mg_pc' = "applied"
    /\ UNCHANGED <<mg_dry, mg_files, mg_rows, mg_ran, mg_before, mg_pending, mg_executed,
                   mg_ret>>
    /\ UNCHANGED <<vvars, davars, dvars, ovars, xvars, fivars, lpvars, dpvars>>

\* _get_applied returns the names; pending is computed; nothing pending: []
Mig_GetApplied ==
    /\ mg_pc = "applied"
    /\ LET pending == GetPending(mg_files, AppliedFor(FALSE, mg_rows))
       IN  /\ mg_pending' = pending
           /\ IF pending = <<>>
              THEN mg_pc' = "returned" /\ mg_ret' = ReturnedList(<<>>)
              ELSE mg_pc' = "execute" /\ mg_ret' = mg_ret
    /\ UNCHANGED <<mg_dry, mg_files, mg_table, mg_rows, mg_ran, mg_before, mg_executed>>
    /\ UNCHANGED <<vvars, davars, dvars, ovars, xvars, fivars, lpvars, dpvars>>

\* _execute_migration commits the SQL of the next pending file and its row in
\* _migrations; after the last one the executed names are returned
Mig_Execute ==
    /\ mg_pc = "execute"
    /\ LET name == mg_pending[Len(mg_executed) + 1]
           executed == Append(mg_executed, name)
       IN  /\ mg_ran' = Append(mg_ran, name)
           /\ mg_rows' = mg_rows \cup {name}
           /\ mg_executed' = executed
           /\ IF Len(executed) = Len(mg_pending)
              THEN mg_pc' = "returned" /\ mg_ret' = ReturnedList(executed)
              ELSE mg_pc' = "execute" /\ mg_ret' = mg_ret
    /\ UNCHANGED <<mg_dry, mg_files, mg_table, mg_before, mg_pending>>
    /\ UNCHANGED <<vvars, davars, dvars, ovars, xvars, fivars, lpvars, dpvars>>

\* _execute_migration raises: the transaction is rolled back and run raises
Mig_ExecuteFails ==
    /\ mg_pc = "execute"
    /\ mg_pc' = "raised"
    /\ UNCHANGED <<mg_dry, mg_files, mg_table, mg_rows, mg_ran, mg_before, mg_pending,
                   mg_executed, mg_ret>>
    /\ UNCHANGED <<vvars, davars, dvars, ovars, xvars, fivars, lpvars, dpvars>>

MigrationNext ==
    \/ Mig_Connected \/ Mig_ConnectFails \/ Mig_CreateTrackingTable
    \/ Mig_GetApplied \/ Mig_Execute \/ Mig_ExecuteFails

(***************************************************************************)
(* get_db_pool / close_db_pool (database/connection.py)                    *)
(***************************************************************************)
NumPoolCallers == 3

PoolCallers == 1..NumPoolCallers

\* DatabasePool(): _pool is None
NewDatabasePool == [pool |-> FALSE]

NoPool == [returned |-> FALSE, inst |-> 0, connected |-> FALSE, close |-> "no"]

\* get_db_pool returned the instance inst; connected: its _pool was set then
ReturnedPool(inst, connected, close) ==
    [returned |-> TRUE, inst |-> inst, connected |-> connected, close |-> close]

PoolInit ==
    /\ dp_pc = [c \in PoolCallers |-> "call"]
    /\ dp_inst = <<>>
    /\ dp_global = 0
    /\ dp_mine = [c \in PoolCallers |-> 0]
    /\ dp_ret = [c \in PoolCallers |-> NoPool]
    /\ dp_created = 0
    /\ dp_close = "no"

PoolIdle ==
    /\ dp_pc = [c \in PoolCallers |-> "idle"]
    /\ dp_inst = <<>>
    /\ dp_global = 0
    /\ dp_mine = [c \in PoolCallers |-> 0]
    /\ dp_ret = [c \in PoolCallers |-> NoPool]
    /\ dp_created = 0
    /\ dp_close = "no"

\* get_db_pool finds _global_pool set and returns it
Pool_GetExisting(c) ==
    /\ dp_pc[c] = "call"
    /\ dp_global # 0
    /\ dp_ret' = [dp_ret EXCEPT ![c] = ReturnedPool(dp_global, dp_inst[dp_global].pool, dp_close)]
    /\ dp_pc' = [dp_pc EXCEPT ![c] = "returned"]
    /\ UNCHANGED <<dp_inst, dp_global, dp_mine, dp_created, dp_close>>
    /\ UNCHANGED <<vvars, davars, dvars, ovars, xvars, fivars, lpvars, mgvars>>

\* get_db_pool finds None: _global_pool = DatabasePool(), then awaits connect
Pool_GetCreate(c) ==
    /\ dp_pc[c] = "call"
    /\ dp_global = 0
    /\ dp_inst' = Append(dp_inst, NewDatabasePool)
    /\ dp_global' = Len(dp_inst) + 1
    /\ dp_mine' = [dp_mine EXCEPT ![c] = Len(dp_inst) + 1]
    /\ dp_pc' = [dp_pc EXCEPT ![c] = "connecting"]
    /\ UNCHANGED <<dp_ret, dp_created, dp_close>>
    /\ UNCHANGED <<vvars, davars, dvars, ovars, xvars, fivars, lpvars, mgvars>>

\* asyncpg.create_pool returns: _pool is set, connect returns and get_db_pool
\* returns what _global_pool is now
Pool_Connected(c) ==
    /\ dp_pc[c] = "connecting"
    /\ dp_inst' = [dp_inst EXCEPT ![dp_mine[c]] = [pool |-> TRUE]]
    /\ dp_created' = dp_created + 1
    /\ dp_ret' = [dp_ret EXCEPT ![c] =
                     ReturnedPool(dp_global,
                                  IF dp_global = 0 THEN FALSE ELSE dp_inst'[dp_global].pool,
                                  dp_close)]
    /\ dp_pc' = [dp_pc EXCEPT ![c] = "returned"]
    /\ UNCHANGED <<dp_global, dp_mine, dp_close>>
    /\ UNCHANGED <<vvars, davars, dvars, ovars, xvars, fivars, lpvars, mgvars>>

\* asyncpg.create_pool raises: connect raises ConnectionError, which leaves
\* get_db_pool; _global_pool keeps the instance
Pool_ConnectFails(c) ==
    /\ dp_pc[c] = "connecting"
    /\ dp_pc' = [dp_pc EXCEPT ![c] = "raised"]
    /\ UNCHANGED <<dp_inst, dp_global, dp_mine, dp_ret, dp_created, dp_close>>
    /\ UNCHANGED <<vvars, davars, dvars, ovars, xvars, fivars, lpvars, mgvars>>

\* close_db_pool: nothing to do without a global instance; an instance whose
\* _pool is None is dropped at once; otherwise the pool's close is awaited
Pool_Close ==
    /\ dp_close = "no"
    /\ IF dp_global # 0 /\ dp_inst[dp_global].pool
       THEN dp_close' = "closing" /\ dp_global' = dp_global
       ELSE dp_close' = "closed" /\ dp_global' = 0
    /\ UNCHANGED <<dp_pc, dp_inst, dp_mine, dp_ret, dp_created>>
    /\ UNCHANGED <<vvars, davars, dvars, ovars, xvars, fivars, lpvars, mgvars>>

\* the pool's close returns: _pool = None, then _global_pool = None
Pool_Closed ==
    /\ dp_close = "closing"
    /\ dp_inst' = [dp_inst EXCEPT ![dp_global] = [pool |-> FALSE]]
    /\ dp_global' = 0
    /\ dp_close' = "closed"
    /\ UNCHANGED <<dp_pc, dp_mine, dp_ret, dp_created>>
    /\ UNCHANGED <<vvars, davars, dvars, ovars, xvars, fivars, lpvars, mgvars>>

PoolNext ==
    \/ \E c \in PoolCallers :
        \/ Pool_GetExisting(c)
        \/ Pool_GetCreate(c)
        \/ Pool_Connected(c)
        \/ Pool_ConnectFails(c)
    \/ Pool_Close
    \/ Pool_Closed

FrontendAndDatabaseIdle == FrontendIdle /\ AgentLoopIdle /\ MigrationIdle /\ PoolIdle

InitValidator ==
    /\ ValidatorInit /\ DataAgentIdle /\ DiscoveryInit /\ OrchestratorIdle
    /\ AggregatorIdle /\ ServerIdle /\ ClientIdle /\ QueriesIdle /\ PlannerIdle
    /\ FrontendAndDatabaseIdle

NextValidator == ValidateCall

SpecValidator == InitValidator /\ [][NextValidator]_vars

\* validate is called with a query that breaks two rules
FirstViolationInit ==
    /\ v_sql \in RulePairs
    /\ v_wl \in Whitelists
    /\ v_pc = "call"
    /\ v_out = Passed

InitFirstViolation ==
    /\ FirstViolationInit /\ DataAgentIdle /\ DiscoveryInit /\ OrchestratorIdle
    /\ AggregatorIdle /\ ServerIdle /\ ClientIdle /\ QueriesIdle /\ PlannerIdle
    /\ FrontendAndDatabaseIdle

SpecFirstViolation == InitFirstViolation /\ [][NextValidator]_vars

\* validate is called with one of the whitespace forms of a query
QueryFormsInit ==
    /\ v_sql \in QueryForms
    /\ v_wl \in {NoWhitelist, Whitelist({T_customers})}
    /\ v_pc = "call"
    /\ v_out = Passed

InitQueryForms ==
    /\ QueryFormsInit /\ DataAgentIdle /\ DiscoveryInit /\ OrchestratorIdle
    /\ AggregatorIdle /\ ServerIdle /\ ClientIdle /\ QueriesIdle /\ PlannerIdle
    /\ FrontendAndDatabaseIdle

SpecQueryForms == InitQueryForms /\ [][NextValidator]_vars

InitDataAgent ==
    /\ DataAgentInit /\ ValidatorIdle /\ DiscoveryInit /\ OrchestratorIdle
    /\ AggregatorIdle /\ ServerIdle /\ ClientIdle /\ QueriesIdle /\ PlannerIdle
    /\ FrontendAndDatabaseIdle

SpecDataAgent == InitDataAgent /\ [][DataAgentNext]_vars

InitDiscovery ==
    /\ DiscoveryInit /\ ValidatorIdle /\ DataAgentIdle /\ OrchestratorIdle
    /\ AggregatorIdle /\ ServerIdle /\ ClientIdle /\ QueriesIdle /\ PlannerIdle
    /\ FrontendAndDatabaseIdle

SpecDiscovery == InitDiscovery /\ [][DiscoveryNext]_vars

InitOrchestrator ==
    /\ OrchestratorInit /\ DiscoveryInit /\ ValidatorIdle /\ DataAgentIdle
    /\ AggregatorIdle /\ ServerIdle /\ ClientIdle /\ QueriesIdle /\ PlannerIdle
    /\ FrontendAndDatabaseIdle

SpecOrchestrator == InitOrchestrator /\ [][OrchestratorNext]_vars

InitAggregator ==
    /\ AggregatorInit /\ ValidatorIdle /\ DataAgentIdle /\ DiscoveryInit /\ OrchestratorIdle
    /\ ServerIdle /\ ClientIdle /\ QueriesIdle /\ PlannerIdle
    /\ FrontendAndDatabaseIdle

SpecAggregator == InitAggregator /\ [][AggregatorNext]_vars

InitServer ==
    /\ ServerInit /\ ValidatorIdle /\ DataAgentIdle /\ DiscoveryInit /\ OrchestratorIdle
    /\ AggregatorIdle /\ ClientIdle /\ QueriesIdle /\ PlannerIdle
    /\ FrontendAndDatabaseIdle

SpecServer == InitServer /\ [][ServerNext]_vars

InitClient ==
    /\ ClientInit /\ ValidatorIdle /\ DataAgentIdle /\ DiscoveryInit /\ OrchestratorIdle
    /\ AggregatorIdle /\ ServerIdle /\ QueriesIdle /\ PlannerIdle
    /\ FrontendAndDatabaseIdle

SpecClient == InitClient /\ [][ClientNext]_vars

InitQueries ==
    /\ QueriesInit /\ ValidatorIdle /\ DataAgentIdle /\ DiscoveryInit /\ OrchestratorIdle
    /\ AggregatorIdle /\ ServerIdle /\ ClientIdle /\ PlannerIdle
    /\ FrontendAndDatabaseIdle

SpecQueries == InitQueries /\ [][QueriesNext]_vars

InitPlanner ==
    /\ PlannerInit /\ ValidatorIdle /\ DataAgentIdle /\ DiscoveryInit /\ OrchestratorIdle
    /\ AggregatorIdle /\ ServerIdle /\ ClientIdle /\ QueriesIdle
    /\ FrontendAndDatabaseIdle

SpecPlanner == InitPlanner /\ [][PlannerNext]_vars

InitFrontend ==
    /\ FrontendInit /\ ValidatorIdle /\ DataAgentIdle /\ DiscoveryInit /\ OrchestratorIdle
    /\ AggregatorIdle /\ ServerIdle /\ ClientIdle /\ QueriesIdle /\ PlannerIdle
    /\ AgentLoopIdle /\ MigrationIdle /\ PoolIdle

SpecFrontend == InitFrontend /\ [][FrontendNext]_vars

InitAgentLoop ==
    /\ AgentLoopInit /\ ValidatorIdle /\ DataAgentIdle /\ DiscoveryInit /\ OrchestratorIdle
    /\ AggregatorIdle /\ ServerIdle /\ ClientIdle /\ QueriesIdle /\ PlannerIdle
    /\ FrontendIdle /\ MigrationIdle /\ PoolIdle

\* the model and the tools answer every invocation
SpecAgentLoop == InitAgentLoop /\ [][AgentLoopNext]_vars /\ WF_vars(AgentLoopNext)

InitMigration ==
    /\ MigrationInit /\ ValidatorIdle /\ DataAgentIdle /\ DiscoveryInit /\ OrchestratorIdle
    /\ AggregatorIdle /\ ServerIdle /\ ClientIdle /\ QueriesIdle /\ PlannerIdle
    /\ FrontendIdle /\ AgentLoopIdle /\ PoolIdle

SpecMigration == InitMigration /\ [][MigrationNext]_vars

InitPool ==
    /\ PoolInit /\ ValidatorIdle /\ DataAgentIdle /\ DiscoveryInit /\ OrchestratorIdle
    /\ AggregatorIdle /\ ServerIdle /\ ClientIdle /\ QueriesIdle /\ PlannerIdle
    /\ FrontendIdle /\ AgentLoopIdle /\ MigrationIdle

SpecPool == InitPool /\ [][PoolNext]_vars

(***************************************************************************)
(* Properties                                                              *)
(***************************************************************************)
S_SELECT == <<"S","E","L","E","C","T">>

\* the whitespace-normalized query starts with SELECT, ignoring case: its
\* first non-whitespace characters spell SELECT
NormalizedStartsWithSelect(sql) ==
    LET b == SkipSpace(sql, 1)
    IN  /\ b + 5 <= Len(sql)
        /\ UpperStr(SubSeq(sql, b, b + 5)) = S_SELECT

\* C1: a connection is acquired and a query fetched only for SQL on which
\* validate returned without error in the same call, and that SQL is the
\* generated one; when validate raised, the call acquired nothing, fetched
\* nothing and returned QueryResult(False, "", error = the validator's message).
C1_ValidatedBeforeExecution ==
    \A h \in Handlers :
        /\ (da_holds[h] \/ da_acq[h] > 0) =>
               /\ da_vout[h] = Passed
               /\ da_sql[h] \in da_ok[h]
        /\ \A i \in DOMAIN da_fetched[h] :
               /\ da_fetched[h][i] \in da_ok[h]
               /\ Validate(da_fetched[h][i], AgentWhitelist) = {Passed}
        /\ (da_pc[h] = "done" /\ da_vout[h].raised) =>
               /\ da_acq[h] = 0
               /\ da_fetched[h] = <<>>
               /\ da_result[h] = QueryResult(FALSE, "", NoneData,
                                             Err(da_vout[h].message, da_vout[h].table))

C1_Witness ==
    \E h, g \in Handlers :
        /\ da_pc[h] = "done" /\ da_vout[h].raised
        /\ da_pc[g] = "done" /\ da_fetched[g] # <<>> /\ da_result[g].success

\* C2: a query whose normalized form does not start with SELECT is rejected
\* with "Only SELECT queries are allowed", whatever else it contains and
\* whatever whitelist is configured.
C2_NonSelectRejected ==
    (v_pc = "done" /\ ~NormalizedStartsWithSelect(v_sql)) =>
        v_out = Raised("Only SELECT queries are allowed")

C2_Witness ==
    /\ v_pc = "done"
    /\ ~NormalizedStartsWithSelect(v_sql)
    /\ FirstDangerous(v_sql) # 0
    /\ v_wl.configured
    /\ v_out = Raised("Only SELECT queries are allowed")

ClaimedKeywords == {
    <<"D","R","O","P">>, <<"D","E","L","E","T","E">>, <<"T","R","U","N","C","A","T","E">>,
    <<"I","N","S","E","R","T">>, <<"U","P","D","A","T","E">>, <<"A","L","T","E","R">>,
    <<"C","R","E","A","T","E">>, <<"G","R","A","N","T">>, <<"R","E","V","O","K","E">>,
    <<"E","X","E","C">>, <<"E","X","E","C","U","T","E">> }

\* kw stands at position i of s as a whole word, in any letter case
WholeWordAt(s, i, kw) ==
    /\ i + Len(kw) - 1 <= Len(s)
    /\ Upper(s[i]) = kw[1]
    /\ (i = 1 \/ ~IsWord(s[i - 1]))
    /\ (i + Len(kw) > Len(s) \/ ~IsWord(s[i + Len(kw)]))
    /\ UpperStr(SubSeq(s, i, i + Len(kw) - 1)) = kw

ContainsKeyword(s) == \E kw \in ClaimedKeywords : \E i \in 1..Len(s) : WholeWordAt(s, i, kw)

\* C3: a query containing one of the eleven keywords as a whole word, in any
\* case, is rejected, also after a valid SELECT prefix.
C3_KeywordRejected ==
    (v_pc = "done" /\ ContainsKeyword(v_sql)) => v_out.raised

C3_Witness ==
    /\ v_pc = "done"
    /\ NormalizedStartsWithSelect(v_sql)
    /\ \E i \in 1..Len(v_sql) : WholeWordAt(v_sql, i, <<"R","E","V","O","K","E">>)
    /\ v_out = Raised("REVOKE statements not allowed")

ContainsComment(s) ==
    \E i \in 1..(Len(s) - 1) :
        \/ s[i] = "-" /\ s[i + 1] = "-"
        \/ s[i] = "/" /\ s[i + 1] = "*"

CommentMessages ==
    {Raised("SQL comment injection not allowed"), Raised("SQL block comment not allowed")}

\* C4 as stated: a query containing -- or /* anywhere fails with the message
\* of the -- or /* pattern.
C4_CommentMessage ==
    (v_pc = "done" /\ ContainsComment(v_sql)) => v_out \in CommentMessages

\* an earlier check of validate fires: the SELECT check, or one of the
\* patterns listed before the comment patterns (DROP .. REVOKE, stacked statement)
EarlierCheckFires(s) ==
    \/ ~NormalizedStartsWithSelect(s)
    \/ \E i \in 1..10 : PatternSearch(DangerousPatterns[i], s)

\* C4 (amended): a query containing -- or /* anywhere is rejected; the message
\* is the comment pattern's (that of -- when -- occurs, else that of /*) when
\* no earlier check fires, and an earlier check's message otherwise.
C4_CommentRejected ==
    (v_pc = "done" /\ ContainsComment(v_sql)) =>
        /\ v_out.raised
        /\ v_out.table = <<>>
        /\ IF EarlierCheckFires(v_sql)
           THEN v_out \notin CommentMessages
           ELSE IF \E i \in 1..(Len(v_sql) - 1) : v_sql[i] = "-" /\ v_sql[i + 1] = "-"
           THEN v_out = Raised("SQL comment injection not allowed")
           ELSE v_out = Raised("SQL block comment not allowed")

C4_Witness ==
    /\ v_pc = "done"
    /\ \E i \in 2..(Len(v_sql) - 2) :
           v_sql[i - 1] = "'" /\ v_sql[i] = "/" /\ v_sql[i + 1] = "*" /\ v_sql[i + 2] = "'"
    /\ v_out = Raised("SQL block comment not allowed")

\* the identifiers that follow a FROM or JOIN keyword in s: after the whole
\* word and at least one whitespace character, the maximal run of word characters
IdentifiersAfterFromJoin(s) ==
    {SubSeq(s, SkipSpace(s, i + 4), SkipWord(s, SkipSpace(s, i + 4)) - 1) :
        i \in {j \in 1..Len(s) :
                 /\ \/ WholeWordAt(s, j, <<"F","R","O","M">>)
                    \/ WholeWordAt(s, j, <<"J","O","I","N">>)
                 /\ SkipSpace(s, j + 4) > j + 4
                 /\ SkipWord(s, SkipSpace(s, j + 4)) > SkipSpace(s, j + 4)}}

NotWhitelisted(s, allowed) ==
    {t \in IdentifiersAfterFromJoin(s) : \A a \in allowed : LowerStr(a) # LowerStr(t)}

\* C5: with a whitelist configured, an otherwise safe SELECT naming a
\* non-whitelisted identifier after FROM or JOIN is rejected with
\* "Table '<name>' not allowed" for such an identifier, and one whose
\* identifiers after FROM and JOIN are all whitelisted passes.
C5_TableWhitelist ==
    (v_pc = "done" /\ v_wl.configured /\ NormalizedStartsWithSelect(v_sql)
        /\ FirstDangerous(v_sql) = 0) =>
        LET named == NotWhitelisted(v_sql, v_wl.tables)
        IN  IF named # {}
            THEN /\ v_out.raised
                 /\ v_out.message = "Table '%s' not allowed"
                 /\ v_out.table \in named
            ELSE v_out = Passed

C5_Witness ==
    /\ v_pc = "done"
    /\ v_wl = Whitelist({T_customers})
    /\ <<"C","u","s","t","o","m","e","r","s">> \in IdentifiersAfterFromJoin(v_sql)
    /\ v_out = TableNotAllowed(<<"O","r","d","e","r","s">>)

\* C9: a finished pass over N URLs of which M returned a parsable card
\* returned a list of exactly M agents when M >= 1 and raised
\* AgentDiscoveryError when M = 0; a failing URL does not end the pass.
C9_DiscoverAll ==
    /\ disc_pc = "returned" => (disc_parsed >= 1 /\ Len(disc_found) = disc_parsed)
    /\ disc_pc = "raised" => disc_parsed = 0
    /\ disc_pc \in {"returned", "raised"} => disc_i = NumUrls + 1
    /\ disc_pc = "fetching" => Len(disc_found) = disc_parsed

C9_Witness ==
    /\ disc_pc = "returned"
    /\ disc_parsed = 1
    /\ disc_parsed < NumUrls
    /\ disc_log \in FetchFailures
    /\ disc_found[1].base_url = AgentUrls[NumUrls]

AfterDispatch ==
    \/ o_pc \in {"synthesize", "returned"}
    \/ o_pc = "raised" /\ o_error = "LLMError: synthesize_response"

\* C6: once gather returned, the list handed to the aggregator holds exactly
\* one AgentResult per planned (agent, sub_query) pair, for every combination
\* of dispatch outcomes; a dispatch that raised became a failed AgentResult
\* with that agent's name and the exception's string, the others are the
\* results their dispatch returned; and process_query never raises the
\* exception of a dispatch.
C6_OneResultPerDispatch ==
    /\ AfterDispatch =>
        /\ Len(o_plan.agents) = Len(o_plan.sub_queries)
        /\ Len(o_results) = Len(o_plan.agents)
        /\ \A i \in DOMAIN o_results :
            /\ o_results[i].agent_name = o_plan.agents[i].name
            /\ o_task[i].state = "exception" =>
                   o_results[i] = AgentResult(o_plan.agents[i].name, FALSE, "", NoneData,
                                              Err(o_task[i].exc, <<>>))
            /\ o_task[i].state = "result" => o_results[i] = o_task[i].result
    /\ o_pc = "raised" =>
        o_error \in {"No agents discovered", "KeyError: 'id'", "LLMError: analyze_query",
                     "LLMError: synthesize_response"}

C6_Witness ==
    /\ o_pc = "returned"
    /\ Len(o_task) = 3
    /\ o_task[o_arrival[1]].kind = "other exception"
    /\ o_task[o_arrival[2]].kind = "success"
    /\ o_task[o_arrival[3]].kind = "http error"
    /\ o_results[o_arrival[2]].success
    /\ o_out.success

\* C7: two agents planned, no join strategy, one dispatch timed out and the
\* other succeeded: process_query returns success with the successful
\* agent's text and data and only its name in source_agents.
C7_TimeoutIsolated ==
    \A i, j \in DOMAIN o_task :
        ( /\ o_pc \in {"synthesize", "returned", "raised"}
          /\ Len(o_task) = 2
          /\ o_plan.join_strategy = NoJoin
          /\ o_task[i].kind = "timeout"
          /\ o_task[j].kind = "success" ) =>
            /\ o_pc = "returned"
            /\ o_out = AggregatedResult(TRUE, o_task[j].result.text, o_task[j].result.data,
                                        <<o_plan.agents[j].name>>)

C7_Witness ==
    /\ o_pc = "returned"
    /\ Len(o_task) = 2
    /\ o_plan.join_strategy = NoJoin
    /\ o_task[1].kind = "timeout"
    /\ o_task[2].kind = "success"
    /\ o_out.success
    /\ ~o_out.combined_data.none /\ Len(o_out.combined_data.rows) = 2
    /\ o_out.source_agents = <<o_plan.agents[2].name>>

\* the names of the planned agents at the positions in ok, in plan order
RECURSIVE NamesAt(_, _, _)
NamesAt(agents, ok, i) ==
    IF i > Len(agents) THEN <<>>
    ELSE (IF i \in ok THEN <<agents[i].name>> ELSE <<>>) \o NamesAt(agents, ok, i + 1)

SucceededSlots == {i \in DOMAIN o_task : o_task[i].state = "result" /\ o_task[i].result.success}

\* C8: whatever the order of arrival, the i-th result handed to the
\* aggregator belongs to the i-th planned agent, and source_agents lists the
\* agents in the order they were queried.
C8_DispatchOrder ==
    o_pc \in {"synthesize", "returned"} =>
        /\ \A i \in DOMAIN o_plan.agents : o_results[i].agent_name = o_plan.agents[i].name
        /\ o_out.source_agents =
               IF SucceededSlots = {} THEN NamesAt(o_plan.agents, DOMAIN o_task, 1)
               ELSE NamesAt(o_plan.agents, SucceededSlots, 1)

C8_Witness ==
    /\ o_pc = "returned"
    /\ o_arrival = <<3, 1, 2>>
    /\ Len(o_out.source_agents) = 3
    /\ o_out.source_agents = <<"customers", "orders", "products">>

\* the datasets handed to _join_data: the rows of the successful results that have rows
JoinedDatasets == RowsOf(SelectSeq(SelectSeq(o_results, IsSuccess), HasRows))

\* the row of the inner join for a row of the first dataset: that row with the
\* rows of equal key of the later datasets merged in, dataset by dataset
RECURSIVE MergeMatches(_, _, _)
MergeMatches(row, datasets, key) ==
    IF datasets = <<>> THEN row
    ELSE MergeMatches(
            MergeDataset(<<row>>, SelectSeq(datasets[1], LAMBDA r : key \in DOMAIN r), key)[1],
            Tail(datasets), key)

\* the inner join on key: the rows of the first dataset whose key value occurs
\* in every later dataset, each merged with its matches
InnerJoin(datasets, key) ==
    LET matched(r) ==
            /\ key \in DOMAIN r
            /\ \A d \in 2..Len(datasets) :
                   \E k \in DOMAIN datasets[d] :
                       key \in DOMAIN datasets[d][k] /\ datasets[d][k][key] = r[key]
        kept == SelectSeq(datasets[1], matched)
    IN  [i \in DOMAIN kept |-> MergeMatches(kept[i], Tail(datasets), key)]

\* C10: with a join strategy k and two or more successful results with rows,
\* combined_data is the inner join of their datasets on k; the datasets
\* [{id:1,x:a},{id:2,x:b}] and [{id:1,y:p},{id:3,y:q}] joined on id give
\* exactly [{id:1,x:a,y:p}].
C10_InnerJoin ==
    ( /\ o_pc \in {"synthesize", "returned"}
      /\ ~o_plan.join_strategy.none
      /\ Len(SelectSeq(o_results, IsSuccess)) >= 2
      /\ Len(JoinedDatasets) >= 2 ) =>
        /\ o_out.combined_data = Data(InnerJoin(JoinedDatasets, o_plan.join_strategy.key))
        /\ ( /\ Len(JoinedDatasets) = 2
             /\ JoinedDatasets[1] = <<[id |-> 1, x |-> "a"], [id |-> 2, x |-> "b"]>>
             /\ JoinedDatasets[2] = <<[id |-> 1, y |-> "p"], [id |-> 3, y |-> "q"]>> ) =>
               o_out.combined_data = Data(<<[id |-> 1, x |-> "a", y |-> "p"]>>)

\* C11: aggregate on results that all failed returns success = false, the
\* fixed message and the names of all the attempted agents in input order,
\* and never calls synthesize_response.
C11_AllFailed ==
    (ag_pc # "call" /\ \A i \in DOMAIN ag_results : ~ag_results[i].success) =>
        /\ ag_pc = "returned"
        /\ ~ag_out.success
        /\ ag_out.response_text = "All data sources failed to respond."
        /\ ag_out.source_agents = [i \in DOMAIN ag_results |-> ag_results[i].agent_name]
        /\ ag_calls = <<>>

C11_Witness ==
    /\ ag_pc = "returned"
    /\ Len(ag_results) = 3
    /\ \A i \in DOMAIN ag_results : ~ag_results[i].success
    /\ ~ag_results[2].data.none
    /\ ag_join = JoinOn("id")
    /\ ag_out.source_agents = <<"customers", "orders", "products">>

\* C12: when exactly one result succeeded, aggregate returns success = true
\* with that result's text and data as they are and only its agent's name,
\* without calling synthesize_response, with or without a join strategy.
C12_SingleSuccess ==
    \A i \in DOMAIN ag_results :
        ( /\ ag_pc # "call"
          /\ ag_results[i].success
          /\ \A j \in DOMAIN ag_results : j # i => ~ag_results[j].success ) =>
            /\ ag_pc = "returned"
            /\ ag_out = AggregatedResult(TRUE, ag_results[i].text, ag_results[i].data,
                                         <<ag_results[i].agent_name>>)
            /\ ag_calls = <<>>

C12_Witness ==
    /\ ag_pc = "returned"
    /\ Len(ag_results) = 3
    /\ ~ag_results[1].success /\ ag_results[2].success /\ ~ag_results[3].success
    /\ ag_join = JoinOn("id")
    /\ ag_out.success
    /\ ag_out.response_text = "text of orders"
    /\ ag_out.combined_data = Data(<<[n |-> 1], [n |-> 1]>>)
    /\ ag_out.source_agents = <<"orders">>

\* the rows of the successful results from position i on, result by result
RECURSIVE SuccessfulRowsFrom(_, _)
SuccessfulRowsFrom(results, i) ==
    IF i > Len(results) THEN <<>>
    ELSE (IF results[i].success /\ ~results[i].data.none THEN results[i].data.rows ELSE <<>>)
         \o SuccessfulRowsFrom(results, i + 1)

\* C13: with two or more successful results and no join strategy,
\* combined_data is the rows of the successful results one dataset after the
\* other in input order, duplicates kept; rows of failed results are left out.
C13_Concatenation ==
    ( /\ ag_pc \in {"synthesize", "returned"}
      /\ ag_join = NoJoin
      /\ Cardinality({i \in DOMAIN ag_results : ag_results[i].success}) >= 2 ) =>
        ag_out.combined_data = Data(SuccessfulRowsFrom(ag_results, 1))

C13_Witness ==
    /\ ag_pc = "returned"
    /\ ag_join = NoJoin
    /\ Len(ag_results) = 3
    /\ ag_results[1].success /\ ag_results[1].data = Data(<<[n |-> 1], [n |-> 1]>>)
    /\ ~ag_results[2].success /\ ~ag_results[2].data.none
    /\ ag_results[3].success /\ ag_results[3].data = Data(<<[n |-> 1], [n |-> 1]>>)
    /\ ag_out.combined_data = Data(<<[n |-> 1], [n |-> 1], [n |-> 1], [n |-> 1]>>)

\* message.parts holds a text-typed part with a non-empty text
TextPartWithText(body) ==
    /\ body.params = "object"
    /\ \E k \in DOMAIN body.parts :
           /\ body.parts[k].object
           /\ IsTextPart(body.parts[k])
           /\ TextTruthy(body.parts[k].text)

\* params is not an object, or a part that is not an object stands before
\* the first text-typed part
NonObjectFirst(body) ==
    \/ body.params = "null"
    \/ /\ body.params = "object"
       /\ \E k \in DOMAIN body.parts :
              /\ ~body.parts[k].object
              /\ \A j \in 1..(k - 1) : ~IsTextPart(body.parts[j])

C15_HandlerAndParseErrors ==
    sv_pc = "responded" =>
        /\ sv_exc # NoException =>
               sv_resp = ErrorResponse(sv_body.id, -32603, sv_exc.message)
        /\ sv_body.kind \in {"malformed", "undecodable"} =>
               (sv_resp.kind = "error" /\ sv_resp.code = -32700 /\ sv_resp.id = Null)

\* C16: once a discover_all of the orchestrator has returned, no discover_all
\* runs or returns again, and none is started while another call is between
\* its initialize step and its return.
C16_DiscoveryOnce ==
    /\ oq_ok <= 1
    /\ ~(oq_ok >= 1 /\ \E q \in Queries : oq_pc[q] = "discovering")
    /\ ~oq_mid

\* C17: process_query always returns a QueryResult: success = true with
\* error = None after a fetch, or success = false, text = "", data = None and
\* the error string of the failed stage (generation, validation, execution).
C17_NeverRaises ==
    \A h \in Handlers :
        /\ da_pc[h] \in {"generate", "acquire", "fetch", "release", "done"}
        /\ da_pc[h] = "done" =>
            LET r == da_result[h]
            IN  IF r.success
                THEN r.error = NoneError /\ da_vout[h] = Passed /\ da_acq[h] = 1
                ELSE /\ r.text = "" /\ r.data = NoneData /\ ~r.error.none
                     /\ r.error.message =
                            IF da_vout[h] = NotValidated THEN "LLM call failed"
                            ELSE IF da_vout[h].raised THEN da_vout[h].message
                            ELSE IF da_acq[h] = 0 THEN "Query failed: <conversion error>"
                            ELSE r.error.message
                     /\ (da_acq[h] = 1) =>
                            r.error.message \in {"Query failed: <driver error>",
                                                 "Query failed: <serialization error>"}

C17_Witness ==
    \E h, g \in Handlers :
        /\ da_pc[h] = "done" /\ da_vout[h] = NotValidated
        /\ da_result[h] = QueryResult(FALSE, "", NoneData, Err("LLM call failed", <<>>))
        /\ da_pc[g] = "done" /\ da_acq[g] = 1
        /\ da_result[g] = QueryResult(FALSE, "", NoneData, Err("Query failed: <driver error>", <<>>))

\* C18: process_query raises only for a discovery that found no agent or for
\* a failed analyze_query call, and never once a plan exists.
C18_RaisesOnlyBeforePlan ==
    o_pc = "raised" =>
        /\ o_plan = NoPlan
        /\ o_error \in {"No agents discovered", "LLMError: analyze_query"}

\* C19: a handler holds a connection exactly while it is between the
\* acquisition and the end of the `async with` block of one fetch; it
\* acquires at most once per call, holds none after process_query returned,
\* and the pool's connections are all either free or held by a handler.
C19_ConnectionScoped ==
    /\ \A h \in Handlers :
        /\ da_holds[h] <=> da_pc[h] \in {"fetch", "release"}
        /\ da_pc[h] = "done" => ~da_holds[h]
        /\ da_acq[h] <= 1
        /\ Len(da_fetched[h]) = da_acq[h]
    /\ pool_free >= 0
    /\ pool_free + Cardinality({h \in Handlers : da_holds[h]}) = PoolSize

C19_Witness ==
    \E h, g \in Handlers :
        /\ da_pc[h] = "done" /\ da_acq[h] = 1 /\ ~da_holds[h]
        /\ da_result[h].error.message = "Query failed: <serialization error>"
        /\ da_pc[g] = "fetch" /\ da_holds[g]
        /\ pool_free = PoolSize - 1

\* the failure kind of a reply: a timeout, another exception, an error envelope
FailureKind(reply) ==
    IF reply.kind = "timeout" THEN "timeout"
    ELSE IF reply.kind = "exception" THEN "exception"
    ELSE IF reply.kind = "json" /\ reply.json = "object" /\ reply.error \in {"object", "object without message"}
    THEN "agent error"
    ELSE "other"

\* C20: query_a2a_agent returns a dict with the keys success, text, data and
\* error for every outcome: a timeout gives success = false and "Request to
\* <agent> timed out", another exception success = false and its text, an
\* error envelope success = false and its message; the error strings of the
\* three kinds never coincide.
C20_ClientNeverRaises ==
    cl_pc = "returned" =>
        /\ DOMAIN cl_ret = {"success", "text", "data", "error"}
        /\ cl_ret.success \in BOOLEAN
        /\ cl_reply.kind = "timeout" =>
               cl_ret = ClientDict(FALSE, "", NoneData,
                                   ClientError("Request to " \o ClientAgent \o " timed out"))
        /\ cl_reply.kind = "exception" =>
               cl_ret = ClientDict(FALSE, "", NoneData,
                            ClientError("Failed to query " \o ClientAgent \o ": " \o cl_reply.text))
        /\ (cl_reply.kind = "json" /\ cl_reply.json = "object" /\ cl_reply.error # "") =>
               /\ ~cl_ret.success /\ cl_ret.text = "" /\ cl_ret.data = NoneData
               /\ ~cl_ret.error.none
        /\ (cl_reply.kind = "json" /\ cl_reply.error = "object") =>
               cl_ret.error = ClientError("Agent error: " \o cl_reply.message)
        /\ cl_ret.success => cl_ret.error = ClientNoError
        /\ \A other \in ClientReplies :
               ( /\ FailureKind(cl_reply) # "other"
                 /\ FailureKind(other) # "other"
                 /\ FailureKind(other) # FailureKind(cl_reply) ) =>
                   ClientReturn(other, ClientAgent).error # cl_ret.error

C20_Witness ==
    /\ cl_pc = "returned"
    /\ cl_reply = RaisedReply("timeout", "ReadTimeout")
    /\ cl_ret = ClientDict(FALSE, "", NoneData, ClientError("Request to Orders Agent timed out"))

\* C21: after a pass of discover_all returned, the registry holds exactly the
\* agents that pass found, and a pass that follows an earlier one leaves the
\* registry as it was until the pass ends, so that no reader sees a registry
\* that is neither the old one nor the new one.
C21_RegistryReplaced ==
    /\ [](disc_pc = "returned" =>
            /\ \A k \in DOMAIN disc_agents : InSeq(disc_agents[k], disc_found)
            /\ \A j \in DOMAIN disc_found :
                   \E k \in DOMAIN disc_agents : disc_agents[k].name = disc_found[j].name)
    /\ [][(disc_pass >= 2 /\ disc_pc = "fetching" /\ disc_pc' = "fetching") =>
              disc_agents' = disc_agents]_vars

\* the dispatches answered with a success envelope
AnsweredSlots == {i \in DOMAIN o_task : o_task[i].kind = "success"}

\* C22: a dispatch whose handler returned a failed QueryResult yields an
\* AgentResult with success = false and an error, and when every dispatched
\* agent's handler failed, process_query returns success = false.
C22_FailurePropagates ==
    /\ \A i \in AnsweredSlots :
           ~o_handler[i].success =>
               /\ ~o_task[i].result.success
               /\ ~o_task[i].result.error.none
    /\ (/\ o_pc \in {"synthesize", "returned"}
        /\ AnsweredSlots = DOMAIN o_task
        /\ \A i \in AnsweredSlots : ~o_handler[i].success) => ~o_out.success

\* the registry index of the agent a mapping resolves to: the first agent in
\* registration order having the skill, 0 when no agent has it
ResolvedBy(reg, mapping) ==
    IF \E a \in DOMAIN reg : HasSkill(reg[a], mapping.skill_id)
    THEN CHOOSE a \in DOMAIN reg :
            /\ HasSkill(reg[a], mapping.skill_id)
            /\ \A b \in 1..(a - 1) : ~HasSkill(reg[b], mapping.skill_id)
    ELSE 0

\* the mappings that are the first to resolve to their agent, in the model's order
FirstMappings(reg, mappings) ==
    SelectSeq([k \in DOMAIN mappings |-> [k |-> k, a |-> ResolvedBy(reg, mappings[k])]],
              LAMBDA m : /\ m.a # 0
                         /\ \A j \in 1..(m.k - 1) : ResolvedBy(reg, mappings[j]) # m.a)

\* C23: a plan built from mappings of which one resolves has as many agents as
\* sub-queries, no agent twice, only agents some mapping resolved to, every
\* such agent, each paired with the sub_query of the first mapping that
\* resolved to it, in the order of those mappings.
C23_PlanShape ==
    pl_pc = "planned" =>
        /\ Len(pl_plan.agents) = Len(pl_plan.sub_queries)
        /\ \A i, j \in DOMAIN pl_plan.agents : i # j => pl_plan.agents[i] # pl_plan.agents[j]
        /\ LET mappings == pl_analysis.skill_mappings
               first    == FirstMappings(pl_reg, mappings)
           IN  first # <<>> =>
                 /\ Len(pl_plan.agents) = Len(first)
                 /\ \A i \in DOMAIN first :
                       /\ pl_plan.agents[i] = pl_reg[first[i].a]
                       /\ pl_plan.sub_queries[i] = mappings[first[i].k].sub_query

\* two mappings resolve to the same agent, which is planned once with the
\* sub_query of the first
C23_Witness ==
    /\ pl_pc = "planned"
    /\ Len(pl_reg) = 3
    /\ Len(pl_analysis.skill_mappings) = 2
    /\ pl_analysis.skill_mappings[1].skill_id = "order_query"
    /\ pl_analysis.skill_mappings[2].skill_id = "order_query"
    /\ Len(pl_plan.agents) = 1
    /\ pl_plan.agents[1].name = "orders"
    /\ pl_plan.sub_queries = <<"sub-query 1">>

\* C24: when no mapping resolves to an agent of the registry, the plan
\* targets the agents of the registry, each once and in registration order,
\* each with the user's query as sub_query.
C24_FallbackToAll ==
    (/\ pl_pc = "planned"
     /\ \A k \in DOMAIN pl_analysis.skill_mappings :
            \A a \in DOMAIN pl_reg :
                ~HasSkill(pl_reg[a], pl_analysis.skill_mappings[k].skill_id)) =>
        /\ pl_plan.agents = pl_reg
        /\ Len(pl_plan.sub_queries) = Len(pl_reg)
        /\ \A i \in DOMAIN pl_plan.sub_queries : pl_plan.sub_queries[i] = UserQuery
        /\ pl_plan.original_query = UserQuery

C24_Witness ==
    /\ pl_pc = "planned"
    /\ Len(pl_reg) = 3
    /\ Len(pl_analysis.skill_mappings) = 1
    /\ pl_analysis.skill_mappings[1].skill_id = "unknown_skill"
    /\ Len(pl_plan.agents) = 3
    /\ pl_plan.sub_queries = <<UserQuery, UserQuery, UserQuery>>

\* aggregate has begun: it waits for synthesize_response, has returned, or
\* was left by the LLMError of synthesize_response
AggregationBegun ==
    \/ o_pc \in {"synthesize", "returned"}
    \/ o_pc = "raised" /\ o_error = "LLMError: synthesize_response"

\* C25: while a dispatch is unresolved the aggregator has received nothing
\* and no synthesis was requested; once aggregation has begun every dispatch
\* has resolved, and from then on no dispatch entry and no AgentResult changes.
C25_AggregationAfterBarrier ==
    /\ [](/\ (\E i \in DOMAIN o_task : o_task[i].state = "pending") =>
                (~AggregationBegun /\ o_results = <<>> /\ o_synth = <<>>)
          /\ AggregationBegun =>
                /\ Len(o_arrival) = Len(o_task)
                /\ Len(o_results) = Len(o_task))
    /\ [][AggregationBegun => (o_task' = o_task /\ o_results' = o_results)]_vars

\* three dispatches resolved out of order, one by an exception, before
\* aggregate asked for the synthesis
C25_Witness ==
    /\ o_pc = "synthesize"
    /\ o_arrival = <<2, 3, 1>>
    /\ o_task[1].state = "exception"
    /\ Len(o_results) = 3

\* the summary entries expected for a list of results: one per successful
\* result, in the order of the list
RECURSIVE SummaryOf(_)
SummaryOf(results) ==
    IF results = <<>> THEN <<>>
    ELSE LET r == results[Len(results)]
             before == SummaryOf(SubSeq(results, 1, Len(results) - 1))
         IN  IF r.success
             THEN Append(before,
                     [agent |-> r.agent_name, text |-> r.text,
                      row_count |-> IF r.data.none THEN 0 ELSE Len(r.data.rows)])
             ELSE before

\* C26: once aggregate went past its branch, synthesize_response was called
\* exactly once if two or more results succeeded, with the original query and
\* one {agent, text, row_count} entry per successful result in the order of
\* the results, and not at all otherwise.
C26_SynthesisOnce ==
    ag_pc # "call" =>
        IF Cardinality({i \in DOMAIN ag_results : ag_results[i].success}) >= 2
        THEN ag_calls = <<[original_query |-> UserQuery, agent_results |-> SummaryOf(ag_results)]>>
        ELSE ag_calls = <<>>

\* a failed result between two successful ones, joined on a key
C26_Witness ==
    /\ ag_pc = "returned"
    /\ Len(ag_results) = 3
    /\ ag_results[1].success /\ ~ag_results[2].success /\ ag_results[3].success
    /\ ~ag_join.none
    /\ Len(ag_calls) = 1
    /\ Len(ag_calls[1].agent_results) = 2
    /\ ag_calls[1].agent_results[2].row_count > 0

\* C27: when some result succeeded and no successful result carried rows,
\* combined_data of the aggregate is None.
C27_NoRowsNoData ==
    (/\ ag_pc \in {"synthesize", "returned"}
     /\ \E i \in DOMAIN ag_results : ag_results[i].success
     /\ \A i \in DOMAIN ag_results :
            ag_results[i].success =>
                (ag_results[i].data.none \/ ag_results[i].data.rows = <<>>)) =>
        ag_out.combined_data = NoneData

\* C28: in a join of two or more datasets on a key, every row of a later
\* dataset whose key value equals that of a row of the first dataset has its
\* fields in the combined entry of that key, whatever the key value is.
C28_MergeEveryKey ==
    (/\ o_pc \in {"synthesize", "returned"}
     /\ Len(SelectSeq(o_results, IsSuccess)) >= 2
     /\ ~o_plan.join_strategy.none
     /\ Len(JoinedDatasets) >= 2) =>
        LET key == o_plan.join_strategy.key
            ds  == JoinedDatasets
            out == o_out.combined_data.rows
        IN  \A d \in 2..Len(ds) : \A k \in DOMAIN ds[d] :
                LET row == ds[d][k]
                IN  (/\ key \in DOMAIN row
                     /\ \E f \in DOMAIN ds[1] :
                            key \in DOMAIN ds[1][f] /\ ds[1][f][key] = row[key]) =>
                        \E m \in DOMAIN out :
                            /\ key \in DOMAIN out[m]
                            /\ out[m][key] = row[key]
                            /\ DOMAIN row \subseteq DOMAIN out[m]

\* the parts of a kind in the artifact the agent's server built
PartsOfType(parts, type) == SelectSeq(parts, LAMBDA p : p.type = type)

\* C29: a response with an error key becomes a failed AgentResult carrying
\* the message; otherwise text is the first text part of the artifact ("" if
\* there is none) and data the rows of its data part (None if there is none).
C29_FirstTextPart ==
    \A i \in DOMAIN o_task :
        /\ o_task[i].kind = "rpc error" =>
               /\ ~o_task[i].result.success
               /\ ~o_task[i].result.error.none
               /\ o_task[i].result.error.message
                      \in {"Invalid params: no text found", "Unknown error"}
        /\ o_task[i].kind = "success" =>
               LET parts == SuccessParts(o_handler[i])
                   texts == PartsOfType(parts, "text")
                   datas == PartsOfType(parts, "data")
               IN  /\ o_task[i].result.success
                   /\ o_task[i].result.text = IF texts = <<>> THEN "" ELSE texts[1].text
                   /\ o_task[i].result.data =
                          IF datas = <<>> THEN NoneData ELSE Data(datas[1].rows)

\* the dangerous patterns in the order of the statement: the keywords and
\* procedure prefixes first, then the stacked statement and the comments
StatedOrder == <<1, 2, 3, 4, 5, 6, 7, 8, 9, 13, 14, 15, 16, 10, 11, 12>>

\* the dangerous patterns in the order of the list: the stacked statement and
\* the comments come before EXEC, EXECUTE, xp_ and sp_
ListOrder == <<1, 2, 3, 4, 5, 6, 7, 8, 9, 10, 11, 12, 13, 14, 15, 16>>

\* the first pattern, in an order, that the query matches; 0 if it matches none
EarliestIn(order, s) ==
    LET hits == {k \in DOMAIN order : PatternSearch(DangerousPatterns[order[k]], s)}
    IN  IF hits = {} THEN 0 ELSE order[CHOOSE k \in hits : \A j \in hits : k <= j]

\* validate reported the first violation: the SELECT check, then the patterns
\* in the given order, then the table whitelist
ReportsFirstViolation(order) ==
    v_pc = "done" =>
        LET earliest == EarliestIn(order, v_sql)
        IN  IF ~NormalizedStartsWithSelect(v_sql)
            THEN v_out = Raised("Only SELECT queries are allowed")
            ELSE IF earliest # 0
            THEN v_out = Raised(DangerousPatterns[earliest].message)
            ELSE IF v_wl.configured /\ NotWhitelisted(v_sql, v_wl.tables) # {}
            THEN v_out.raised /\ v_out.message = "Table '%s' not allowed"
            ELSE v_out = Passed

\* C30 as stated: the first violation with EXEC, EXECUTE, xp_ and sp_ ahead
\* of the stacked statement and the comments.
C30_OrderAsStated == ReportsFirstViolation(StatedOrder)

\* C30: validate reports the first violation in the order SELECT check, then
\* DROP, DELETE, TRUNCATE, INSERT, UPDATE, ALTER, CREATE, GRANT, REVOKE,
\* stacked statement, "--", "/*", EXEC, EXECUTE, xp_, sp_, then the whitelist.
C30_OrderInList == ReportsFirstViolation(ListOrder)

\* a SELECT with a stacked statement that is also an EXEC: the stacked
\* statement is reported
C30_Witness ==
    /\ v_pc = "done"
    /\ NormalizedStartsWithSelect(v_sql)
    /\ PatternSearch(DangerousPatterns[10], v_sql)
    /\ \E k \in 13..16 : PatternSearch(DangerousPatterns[k], v_sql)
    /\ v_out = Raised("multiple statements not allowed")

\* a semicolon followed, after optional whitespace, by a further character
StackedStatement(s) ==
    \E i \in 1..Len(s) : s[i] = ";" /\ SkipSpace(s, i + 1) <= Len(s)

\* C31: a query in which a semicolon is followed, after optional whitespace,
\* by any further non-whitespace character is rejected, and the stacked
\* statement message is given to such queries only.
C31_StackedRejected ==
    /\ (v_pc = "done" /\ StackedStatement(v_sql)) => v_out.raised
    /\ (v_pc = "done" /\ v_out = Raised("multiple statements not allowed")) =>
           StackedStatement(v_sql)

\* C32: the outcome of validate on a query is its outcome on the
\* whitespace-normalized form of the query: it raises on one iff it raises on
\* the other, with the same message.
C32_WhitespaceInsensitive ==
    v_pc = "done" => Validate(Normalize(v_sql), v_wl) = {v_out}

\* a query with leading whitespace, a tab and a newline before the table
\* name, rejected for that table as its normalized form is
C32_Witness ==
    /\ v_pc = "done"
    /\ Normalize(v_sql) # v_sql
    /\ v_sql[1] = "\n"
    /\ \E i \in 1..(Len(v_sql) - 1) : v_sql[i] = "\t" /\ v_sql[i + 1] = "\n"
    /\ v_out = TableNotAllowed(<<"s","e","c","r","e","t","s">>)
    /\ v_out \in Validate(Normalize(v_sql), v_wl)

\* the identifiers listed after a comma behind the table of a FROM clause
CommaListed(s) ==
    {SubSeq(s, SkipSpace(s, c + 1), SkipWord(s, SkipSpace(s, c + 1)) - 1) :
        c \in {k \in 1..Len(s) :
                 /\ s[k] = ","
                 /\ SkipWord(s, SkipSpace(s, k + 1)) > SkipSpace(s, k + 1)
                 /\ \E j \in 1..Len(s) :
                        /\ WholeWordAt(s, j, <<"F","R","O","M">>)
                        /\ SkipSpace(s, j + 4) > j + 4
                        /\ SkipWord(s, SkipSpace(s, j + 4)) > SkipSpace(s, j + 4)
                        /\ SkipSpace(s, SkipWord(s, SkipSpace(s, j + 4))) = k}}

\* the tables a query reads from: those after FROM and JOIN and those listed
\* after a comma in a FROM list
TablesRead(s) == IdentifiersAfterFromJoin(s) \cup CommaListed(s)

\* C33: with a whitelist configured, a query that validate passes reads from
\* whitelisted tables only, a table listed after a comma in a FROM list included.
C33_AllTablesAllowed ==
    (v_pc = "done" /\ v_wl.configured /\ ~v_out.raised) =>
        \A t \in TablesRead(v_sql) : \E a \in v_wl.tables : LowerStr(a) = LowerStr(t)

\* the codes listed as standard
StandardCodes == {-32600, -32601, -32602, -32603, -32700}

\* C34: every posted body is answered with a JSON-RPC envelope holding a
\* result or an error with a standard code, -32700 when the body is not valid
\* JSON; no exception leaves the handler, also for a JSON body that is not an
\* object or whose params is not an object.
C34_AlwaysEnvelope ==
    sv_pc = "responded" =>
        /\ sv_resp.kind \in {"result", "error"}
        /\ sv_resp.kind = "error" => sv_resp.code \in StandardCodes
        /\ sv_body.kind = "malformed" => sv_resp = ErrorResponse(Null, -32700, "Parse error")

\* no element stands twice in the sequence
NoRepeat(seq) == \A i, j \in DOMAIN seq : seq[i] = seq[j] => i = j

\* C35: whatever the interleaving of the callers that start before
\* initialization has completed, discover_all is started at most once, and
\* once _initialized is set discovered_agents and tools hold the agent of
\* each configured URL at most once.
C35_DiscoveryOncePerAgent ==
    /\ fi_runs <= 1
    /\ fi_flag => (NoRepeat(DiscoveredAgents) /\ NoRepeat(fi_tools))

\* the positions of the AI responses in the appended messages
AIPositions == {p \in DOMAIN lp_msgs : lp_msgs[p].type = "ai"}

\* the number of tool calls of the response at p that have been processed
Processed(p) ==
    IF lp_pc = "tools" /\ p = CHOOSE q \in AIPositions : \A r \in AIPositions : r <= q
    THEN lp_k - 1
    ELSE Len(lp_msgs[p].tool_calls)

\* the tool message at position p answers the j-th call of the response
Answers(p, call) ==
    /\ p \in DOMAIN lp_msgs
    /\ lp_msgs[p].type = "tool"
    /\ lp_msgs[p].tool_call_id = call.id
    /\ lp_msgs[p].content =
           IF HasTool(lp_tools, call.name) THEN ToolOutput(call.name) ELSE ToolNotFound(call.name)

\* every processed tool call is answered by the message at its place behind
\* the response, and every tool message is such an answer
ToolCallsAnswered ==
    /\ \A p \in AIPositions :
           \A j \in 1..Processed(p) : Answers(p + j, lp_msgs[p].tool_calls[j])
    /\ \A q \in DOMAIN lp_msgs :
           lp_msgs[q].type = "tool" =>
               /\ \E p \in AIPositions : q - p \in 1..Processed(p)
               /\ \A r \in DOMAIN lp_msgs :
                      (lp_msgs[r].type = "tool" /\ lp_msgs[r].tool_call_id = lp_msgs[q].tool_call_id)
                          => r = q

\* query has returned what the statement says
ReturnedAsStated ==
    lp_ret.returned =>
        /\ lp_pc = "returned"
        /\ lp_ret.intermediate_steps = lp_steps
        /\ IF lp_resp.tool_calls = <<>>
           THEN /\ lp_ret.response = lp_resp.content
                /\ Cardinality(AIPositions) = lp_iter - 1
           ELSE /\ lp_ret.response = Apology
                /\ lp_iter = 5
                /\ Cardinality(AIPositions) = 5

C37_DryRunFaithful ==
    (mg_dry /\ mg_pc = "returned") =>
        /\ mg_ran = <<>>
        /\ Database(mg_table, mg_rows) = mg_before
        /\ mg_ret = ReturnedList(Sorted(mg_files \ mg_before.rows))

\* C38: until close_db_pool is called, every caller to whom get_db_pool
\* returns receives the global instance with its pool connected, also while
\* another caller's connect is unfinished and after a connect has failed, and
\* at most one underlying pool is created.
C38_ConnectedOnly ==
    /\ \A c \in PoolCallers :
           (dp_ret[c].returned /\ dp_ret[c].close = "no") =>
               (dp_ret[c].inst # 0 /\ dp_ret[c].connected)
    /\ dp_close = "no" => dp_created <= 1

====
